---------------------------- MODULE Spec2Model ----------------------------
(***************************************************************************)
(* A model of the PatchKit runner (patchkit-net/runner2): the version      *)
(* identity text format, the file manager (version file, installed-file    *)
(* ledger, extraction, cleanup) and the update orchestrator run_launcher.  *)
(*                                                                         *)
(* Text is a sequence of tokens.  A token is a string that holds no        *)
(* separator: the separators ':' , '/' , ' ' and the line break are tokens *)
(* of their own.  A path below the patcher directory is the sequence of    *)
(* its components.                                                         *)
(***************************************************************************)
EXTENDS Integers, Sequences, FiniteSets, TLC

VARIABLES
    files,            \* the files below the patcher directory: path -> content
    dirs,             \* the directories that exist (<< >> is the patcher directory)
    installed_files,  \* FileManager.installed_files, the in-memory ledger
    fmOp,             \* the last FileManager operation that was called
    fmRet,            \* what that operation returned
    fmCreated,        \* the paths the last extract_zip created, in creation order
    fmSaved,          \* the version identity the last successful save_version wrote
    fmPhase,          \* "extracted" after a successful extract_zip, "cleaned" after
                      \* a remove_old_files that followed it with no removal failing
    viIn,             \* VersionInfo check: the patcher secret and the version
    viText,           \* VersionInfo check: the formatted text
    viOut,            \* VersionInfo check: what from_string returned
    pc,               \* where the worker thread is in run_launcher
    run,              \* how many times the runner was started
    launcher_data,    \* run_launcher: what launcher.dat decoded to
    run_patcher_secret, \* run_launcher: the patcher secret in use
    run_version,      \* run_launcher: the latest version the server named
    download,         \* run_launcher: the archive in the temporary file
    error,            \* the error run_launcher returned
    sent,             \* the messages passed to sender.send, and whether the
                      \* channel took them
    uiAlive,          \* the front end still holds the receiving end
    steps,            \* the steps of this run, in the order they were started
    endpoints,        \* whether any connectivity test URL answered
    matched,          \* whether the stored identity was the server's at the comparison
    launched,         \* the command launch_executable was called with
    fs0,              \* files and dirs when this run started
    callOp,           \* function check: the functions applied so far
    callArgs,         \* function check: the input drawn
    callRet,          \* function check: what the last function returned
    lock,             \* the lock file: absent, or its content and modification time
    now,              \* the system clock, in seconds
    peers             \* the runner processes started side by side, each with its position

fmVars == <<files, dirs, installed_files, fmOp, fmRet, fmCreated, fmSaved, fmPhase>>
viVars == <<viIn, viText, viOut>>
runVars == <<pc, run, launcher_data, run_patcher_secret, run_version, download, error,
             sent, uiAlive, steps, endpoints, matched, launched, fs0>>
auxVars == <<callOp, callArgs, callRet, lock, now, peers>>
auxRest == <<callOp, callRet, lock, now, peers>>
vars == <<files, dirs, installed_files, fmOp, fmRet, fmCreated, fmSaved, fmPhase,
          viIn, viText, viOut,
          pc, run, launcher_data, run_patcher_secret, run_version, download, error,
          sent, uiAlive, steps, endpoints, matched, launched, fs0,
          callOp, callArgs, callRet, lock, now, peers>>

-----------------------------------------------------------------------------
(* Bounds *)

\* The longest patcher secret and version string of the VersionInfo check.
MaxStrLen == 2
\* The longest text a version file holds before the first operation.
MaxFileLen == 3
\* How many times the runner is started.
MaxRuns == 2
\* The most chunks a download arrives in.
MaxChunks == 1

-----------------------------------------------------------------------------
(* Text *)

NL == "\n"
\* What str::trim removes at both ends.
Whitespace == {" ", NL}

None == << >>
Some(x) == <<x>>
IsSome(o) == Len(o) = 1

RECURSIVE TrimStart(_)
TrimStart(s) ==
    IF s # << >> /\ Head(s) \in Whitespace THEN TrimStart(Tail(s)) ELSE s

RECURSIVE TrimEnd(_)
TrimEnd(s) ==
    IF s # << >> /\ s[Len(s)] \in Whitespace
    THEN TrimEnd(SubSeq(s, 1, Len(s) - 1)) ELSE s

\* str::trim
Trim(s) == TrimEnd(TrimStart(s))

\* str::split(sep).collect(): the parts between the separators; a text
\* without a separator is one part, the empty text is one empty part.
RECURSIVE Split(_, _)
Split(s, sep) ==
    IF \E i \in 1..Len(s) : s[i] = sep
    THEN LET i == CHOOSE k \in 1..Len(s) :
                     s[k] = sep /\ \A j \in 1..(k - 1) : s[j] # sep
         IN  <<SubSeq(s, 1, i - 1)>> \o Split(SubSeq(s, i + 1, Len(s)), sep)
    ELSE <<s>>

\* All texts over alphabet of length at most n.
RECURSIVE TextsUpTo(_, _)
TextsUpTo(alphabet, n) ==
    IF n = 0 THEN {<< >>}
    ELSE LET shorter == TextsUpTo(alphabet, n - 1)
         IN  shorter \cup {Append(t, c) : t \in shorter, c \in alphabet}

-----------------------------------------------------------------------------
(* VersionInfo (src/file/mod.rs) *)

VersionInfo_new(version, patcher_secret) ==
    [version |-> version, patcher_secret |-> patcher_secret]

from_string_lenient(content) ==
    LET parts == Split(Trim(content), ":")
    IN  IF Len(parts) >= 2
        THEN Some([patcher_secret |-> parts[1], version |-> parts[2]])
        ELSE None

\* VersionInfo::from_string
from_string(content) ==
    LET parts == Split(Trim(content), ":")
    IN  IF Len(parts) = 2
        THEN Some([patcher_secret |-> parts[1], version |-> parts[2]])
        ELSE None

to_string_version_first(info) ==
    info.version \o <<":">> \o info.patcher_secret

\* VersionInfo::to_string
to_string(info) ==
    info.patcher_secret \o <<":">> \o info.version

-----------------------------------------------------------------------------
(* Results and paths *)

Ok(x) == <<"Ok", x>>
Err(e) == <<"Err", e>>
IsOk(r) == r[1] = "Ok"
IsErr(r) == r[1] = "Err"

\* FileManager::get_patcher_dir: every path of the model is relative to it.
PatcherDir == << >>
VersionFile == PatcherDir \o <<"version.txt">>
InstalledFilesPath == PatcherDir \o <<"installed_files.txt">>
manifest_path_in_install_dir(extract_path) == <<"/", "app", "patcher.manifest">>
\* launch_from_manifest: extract_path.join("patcher.manifest")
manifest_path(extract_path) == extract_path \o <<"patcher.manifest">>
ManifestPath == manifest_path(PatcherDir)

IsFile(fl, p) == p \in DOMAIN fl
IsDir(ds, p) == p \in ds
Exists(fl, ds, p) == IsFile(fl, p) \/ IsDir(ds, p)

Parent(p) == SubSeq(p, 1, Len(p) - 1)
\* A path that starts with "/" is absolute and lies outside the patcher
\* directory (Path::strip_prefix(patcher_dir) fails on it).
IsAbsolute(p) == p # << >> /\ Head(p) = "/"
\* p and all its ancestors, up to the patcher directory or up to the root.
Prefixes(p) ==
    {SubSeq(p, 1, k) : k \in (IF IsAbsolute(p) THEN 1 ELSE 0)..Len(p)}
\* The same, outermost first.
PrefixSeq(p) ==
    IF IsAbsolute(p) THEN [k \in 1..Len(p) |-> SubSeq(p, 1, k)]
    ELSE [k \in 1..(Len(p) + 1) |-> SubSeq(p, 1, k - 1)]

\* A directory's entries (what fs::read_dir yields).
Children(fl, ds, p) ==
    {q \in (DOMAIN fl) \cup ds :
        Len(q) = Len(p) + 1 /\ Parent(q) = p /\ IsAbsolute(q) = IsAbsolute(p)}

RemoveKey(fl, p) == [q \in (DOMAIN fl) \ {p} |-> fl[q]]
WriteFile(fl, p, content) ==
    [q \in (DOMAIN fl) \cup {p} |-> IF q = p THEN content ELSE fl[q]]

RECURSIVE SelectSeq2(_, _)
\* The elements of s that are in the set keep, in order.
SelectSeq2(s, keep) ==
    IF s = << >> THEN << >>
    ELSE (IF Head(s) \in keep THEN <<Head(s)>> ELSE << >>)
         \o SelectSeq2(Tail(s), keep)

\* fs::create_dir_all: fails when a component is a file.
CreateDirAllOk(fl, p) == \A q \in Prefixes(p) : ~IsFile(fl, q)
\* File::create: the parent must be a directory and the path must not be one.
FileCreateOk(fl, ds, p) == p # << >> /\ IsDir(ds, Parent(p)) /\ ~IsDir(ds, p)

\* Path::join of a relative path given as text: its components.
RECURSIVE NonEmpty(_)
NonEmpty(parts) ==
    IF parts = << >> THEN << >>
    ELSE (IF Head(parts) = << >> THEN << >> ELSE <<Head(parts)[1]>>)
         \o NonEmpty(Tail(parts))
\* A text that starts with '/' is an absolute path: join replaces the base,
\* and the path is outside the patcher directory (its first component is "/").
PathOfText(text) ==
    (IF text # << >> /\ Head(text) = "/" THEN <<"/">> ELSE << >>)
    \o NonEmpty(Split(text, "/"))

\* Path::to_string_lossy of a relative path.
RECURSIVE TextOfPath(_)
TextOfPath(p) ==
    IF p = << >> THEN << >>
    ELSE IF Len(p) = 1 THEN p
    ELSE <<Head(p), "/">> \o TextOfPath(Tail(p))

\* BufRead::lines: the text cut at line breaks, a final empty line dropped.
Lines(text) ==
    LET parts == Split(text, NL)
    IN  IF parts[Len(parts)] = << >> THEN SubSeq(parts, 1, Len(parts) - 1)
        ELSE parts

-----------------------------------------------------------------------------
(* FileManager (src/file/mod.rs).  An operation is an operator from the    *)
(* file system (and the in-memory ledger) to the file system after it and  *)
(* its result.                                                             *)

\* FileManager::load_installed_files, as FileManager::new calls it: the
\* result is dropped, the list holds what was read.
load_installed_files(fl, ds, current) ==
    IF ~Exists(fl, ds, InstalledFilesPath) THEN current
    ELSE IF IsDir(ds, InstalledFilesPath) THEN << >>
    ELSE LET lines == Lines(fl[InstalledFilesPath])
         IN  [i \in 1..Len(lines) |-> PatcherDir \o PathOfText(lines[i])]

\* FileManager::new: the ledger it starts with.
FileManager_new(fl, ds) == load_installed_files(fl, ds, << >>)

\* The text save_installed_files writes: one relative path per line; a path
\* outside the patcher directory is skipped.
RECURSIVE LedgerText(_)
LedgerText(paths) ==
    IF paths = << >> THEN << >>
    ELSE (IF IsAbsolute(Head(paths)) THEN << >>
          ELSE TextOfPath(Head(paths)) \o <<NL>>)
         \o LedgerText(Tail(paths))

\* FileManager::save_installed_files
save_installed_files(fl, ds, installed) ==
    IF ~FileCreateOk(fl, ds, InstalledFilesPath)
    THEN [files |-> fl, result |-> Err("Io")]
    ELSE [files |-> WriteFile(fl, InstalledFilesPath, LedgerText(installed)),
          result |-> Ok("unit")]

\* FileManager::get_current_version
get_current_version(fl, ds) ==
    IF ~Exists(fl, ds, VersionFile) THEN Ok(None)
    ELSE IF IsDir(ds, VersionFile) THEN Err("Io")
    ELSE Ok(from_string(fl[VersionFile]))

save_version_only_version(fl, ds, version, patcher_secret) ==
    LET ds1 == ds \cup Prefixes(Parent(VersionFile))
    IN  IF ~FileCreateOk(fl, ds1, VersionFile)
        THEN [files |-> fl, dirs |-> ds1, result |-> Err("Io")]
        ELSE [files |-> WriteFile(fl, VersionFile, version),
              dirs |-> ds1, result |-> Ok("unit")]

\* FileManager::save_version
save_version(fl, ds, version, patcher_secret) ==
    LET version_info == VersionInfo_new(version, patcher_secret)
        ds1 == ds \cup Prefixes(Parent(VersionFile))
    IN  IF ~CreateDirAllOk(fl, Parent(VersionFile))
        THEN [files |-> fl, dirs |-> ds, result |-> Err("Io")]
        ELSE IF ~FileCreateOk(fl, ds1, VersionFile)
        THEN [files |-> fl, dirs |-> ds1, result |-> Err("Io")]
        ELSE [files |-> WriteFile(fl, VersionFile, to_string(version_info)),
              dirs |-> ds1, result |-> Ok("unit")]

needs_update_version_only(fl, ds, new_version, new_patcher_secret) ==
    LET cur == get_current_version(fl, ds)
    IN  IF IsErr(cur) THEN cur
        ELSE IF IsSome(cur[2]) THEN Ok(cur[2][1].version # new_version)
        ELSE Ok(TRUE)

\* FileManager::needs_update
needs_update(fl, ds, new_version, new_patcher_secret) ==
    LET cur == get_current_version(fl, ds)
    IN  IF IsErr(cur) THEN cur
        ELSE IF IsSome(cur[2])
        THEN Ok(\/ cur[2][1].version # new_version
                \/ cur[2][1].patcher_secret # new_patcher_secret)
        ELSE Ok(TRUE)

\* ZipFile::mangled_name: the components of the entry's name.
mangled_name(name) == NonEmpty(Split(name, "/"))
\* file.name().ends_with('/')
EndsWithSlash(name) == name # << >> /\ name[Len(name)] = "/"

\* The directories below destination that create_dir_all(p) makes,
\* outermost first.
NewDirs(ds, p, destination) ==
    SelectSeq2(PrefixSeq(p), Prefixes(p) \ (ds \cup Prefixes(destination)))

\* One turn of extract_zip's loop.  failure is "none", "by_index" (the entry
\* cannot be read from the archive) or "copy" (io::copy fails after the file
\* was created).
ExtractEntry(st, entry, destination, failure) ==
    LET outpath == destination \o mangled_name(entry.name)
        failed == [st EXCEPT !.result = Err("Io")]
    IN  IF failure = "by_index" THEN [st EXCEPT !.result = Err("Zip")]
        ELSE IF EndsWithSlash(entry.name)
        THEN IF ~CreateDirAllOk(st.files, outpath) THEN failed
             ELSE [st EXCEPT !.dirs = @ \cup Prefixes(outpath),
                             !.created = @ \o NewDirs(st.dirs, outpath, destination),
                             !.installed = Append(@, outpath)]
        ELSE IF outpath = << >> \/ ~CreateDirAllOk(st.files, Parent(outpath))
        THEN failed
        ELSE LET ds1 == st.dirs \cup Prefixes(Parent(outpath))
                 made == st.created \o NewDirs(st.dirs, Parent(outpath), destination)
             IN  IF ~FileCreateOk(st.files, ds1, outpath)
                 THEN [failed EXCEPT !.dirs = ds1, !.created = made]
                 ELSE IF failure = "copy"
                 THEN [failed EXCEPT
                          !.dirs = ds1,
                          !.created = Append(made, outpath),
                          !.files = WriteFile(st.files, outpath, << >>)]
                 ELSE [st EXCEPT
                          !.dirs = ds1,
                          !.created = Append(made, outpath),
                          !.files = WriteFile(st.files, outpath, entry.data),
                          !.installed = Append(@, outpath)]

RECURSIVE ExtractFrom(_, _, _, _, _)
\* extract_zip's loop from entry i on; fail = [at, kind] names the entry at
\* which the injected failure happens (at = 0: none).
ExtractFrom(st, archive, i, destination, fail) ==
    IF i > Len(archive) \/ IsErr(st.result) THEN st
    ELSE ExtractFrom(
             ExtractEntry(st, archive[i], destination,
                          IF fail.at = i THEN fail.kind ELSE "none"),
             archive, i + 1, destination, fail)

\* FileManager::extract_zip.  fail.kind = "open": the archive cannot be
\* opened or is no zip file.
extract_zip(fl, ds, installed, archive, destination, fail) ==
    IF fail.kind = "open"
    THEN [files |-> fl, dirs |-> ds, installed |-> installed,
          created |-> << >>, result |-> Err("Zip")]
    ELSE LET st == ExtractFrom([files |-> fl, dirs |-> ds, installed |-> << >>,
                                created |-> << >>, result |-> Ok("unit")],
                               archive, 1, destination, fail)
             saved == save_installed_files(st.files, st.dirs, st.installed)
         IN  IF IsErr(st.result) THEN st
             ELSE [st EXCEPT !.files = saved.files, !.result = saved.result]

RECURSIVE RemoveFrom(_, _, _, _)
\* remove_old_files' loop over the ledger, last path first.  stuck: the
\* paths whose removal fails; unreadable: the directories read_dir fails on.
RemoveFrom(st, rev, stuck, unreadable) ==
    IF rev = << >> \/ IsErr(st.result) THEN st
    ELSE LET path == Head(rev)
             next ==
                 IF IsFile(st.files, path)
                 THEN IF path \in stuck THEN st
                      ELSE [st EXCEPT !.files = RemoveKey(@, path)]
                 ELSE IF IsDir(st.dirs, path)
                 THEN IF path \in unreadable
                      THEN [st EXCEPT !.result = Err("Io")]
                      ELSE IF Children(st.files, st.dirs, path) = {}
                              /\ path \notin stuck
                      THEN [st EXCEPT !.dirs = @ \ {path}]
                      ELSE st
                 ELSE st
         IN  RemoveFrom(next, Tail(rev), stuck, unreadable)

Reverse(s) == [i \in 1..Len(s) |-> s[Len(s) + 1 - i]]

\* FileManager::remove_old_files
remove_old_files(fl, ds, installed, stuck, unreadable) ==
    IF installed = << >>
    THEN [files |-> fl, dirs |-> ds, result |-> Ok("unit")]
    ELSE RemoveFrom([files |-> fl, dirs |-> ds, result |-> Ok("unit")],
                    Reverse(installed), stuck, unreadable)

-----------------------------------------------------------------------------
(* The VersionInfo check: format a version identity, then parse the text. *)

ViChars == {"a", ":", " "}
ViStrings == TextsUpTo(ViChars, MaxStrLen)

FmIdle ==
    /\ files = [q \in {} |-> << >>]
    /\ dirs = {}
    /\ installed_files = << >>
    /\ fmOp = [op |-> "init", version |-> << >>, patcher_secret |-> << >>]
    /\ fmRet = Ok("unit")
    /\ fmCreated = << >>
    /\ fmSaved = None
    /\ fmPhase = "idle"

\* The worker is not running.
RunIdle ==
    /\ pc = "off"
    /\ run = 0
    /\ launcher_data = None
    /\ run_patcher_secret = << >>
    /\ run_version = << >>
    /\ download = None
    /\ error = ""
    /\ sent = << >>
    /\ uiAlive = FALSE
    /\ steps = << >>
    /\ endpoints = "unknown"
    /\ matched = "unknown"
    /\ launched = None
    /\ fs0 = [files |-> [q \in {} |-> << >>], dirs |-> {}]

\* No function is under check, there is no lock file.
AuxIdle ==
    /\ callOp = << >>
    /\ callArgs = << >>
    /\ callRet = << >>
    /\ lock = None
    /\ now = 0
    /\ peers = << >>

ViInit ==
    /\ viIn \in [patcher_secret : ViStrings, version : ViStrings]
    /\ viText = None
    /\ viOut = None
    /\ FmIdle
    /\ RunIdle
    /\ AuxIdle

ViFormat ==
    /\ viText = None
    /\ viText' = Some(to_string(VersionInfo_new(viIn.version, viIn.patcher_secret)))
    /\ UNCHANGED <<viIn, viOut>>
    /\ UNCHANGED fmVars
    /\ UNCHANGED <<runVars, auxVars>>

ViParse ==
    /\ IsSome(viText)
    /\ viOut = None
    /\ viOut' = Some(from_string(viText[1]))
    /\ UNCHANGED <<viIn, viText>>
    /\ UNCHANGED fmVars
    /\ UNCHANGED <<runVars, auxVars>>


ViNext == ViFormat \/ ViParse

\* Format, then parse, every version identity over ViChars.
SpecVI == ViInit /\ [][ViNext]_vars

-----------------------------------------------------------------------------
(* Version management: the calls of test_version_management, in any order,  *)
(* on a version file that holds any text or does not exist.                 *)

EmptyFiles == [q \in {} |-> << >>]
NoArgs(op) == [op |-> op, version |-> << >>, patcher_secret |-> << >>]

\* The patcher secrets and versions the calls are made with.
FmStrings == {<<"a">>, <<"b">>, <<"a", ":">>, <<" ", "a">>, <<"a", NL>>}
FmVersionTexts == TextsUpTo({"a", ":", " "}, MaxFileLen)

ViIdle ==
    /\ viIn = [patcher_secret |-> << >>, version |-> << >>]
    /\ viText = None
    /\ viOut = None

VmInit ==
    /\ \/ files = EmptyFiles /\ dirs \in {{}, {PatcherDir}}
       \/ \E t \in FmVersionTexts :
              files = WriteFile(EmptyFiles, VersionFile, t) /\ dirs = {PatcherDir}
    /\ installed_files = << >>
    /\ fmOp = NoArgs("init")
    /\ fmRet = Ok("unit")
    /\ fmCreated = << >>
    /\ fmSaved = None
    /\ fmPhase = "idle"
    /\ ViIdle
    /\ RunIdle
    /\ AuxIdle

VmSaveVersion ==
    \E v \in FmStrings, s \in FmStrings :
        \E r \in {save_version(files, dirs, v, s)} :
            /\ files' = r.files
            /\ dirs' = r.dirs
            /\ fmOp' = [op |-> "save_version", version |-> v, patcher_secret |-> s]
            /\ fmRet' = r.result
            /\ fmSaved' = IF IsOk(r.result)
                          THEN Some([patcher_secret |-> s, version |-> v])
                          ELSE fmSaved
            /\ UNCHANGED <<installed_files, fmCreated, fmPhase>>
            /\ UNCHANGED <<viVars, runVars, auxVars>>

VmGetCurrentVersion ==
    /\ fmOp' = NoArgs("get_current_version")
    /\ fmRet' = get_current_version(files, dirs)
    /\ UNCHANGED <<files, dirs, installed_files, fmCreated, fmSaved, fmPhase>>
    /\ UNCHANGED <<viVars, runVars, auxVars>>

VmNeedsUpdate ==
    \E v \in FmStrings, s \in FmStrings :
        /\ fmOp' = [op |-> "needs_update", version |-> v, patcher_secret |-> s]
        /\ fmRet' = needs_update(files, dirs, v, s)
        /\ UNCHANGED <<files, dirs, installed_files, fmCreated, fmSaved, fmPhase>>
        /\ UNCHANGED <<viVars, runVars, auxVars>>

VmNext == VmSaveVersion \/ VmGetCurrentVersion \/ VmNeedsUpdate

SpecVersion == VmInit /\ [][VmNext]_vars

-----------------------------------------------------------------------------
(* Extraction and cleanup: FileManager::new, extract_zip and               *)
(* remove_old_files in any order, as test_file_cleanup and                 *)
(* test_installed_files_persistence call them.                             *)

Data == <<"x">>
EntryA == [name |-> <<"a">>, data |-> Data]
EntryD == [name |-> <<"d", "/">>, data |-> << >>]
EntryDB == [name |-> <<"d", "/", "b">>, data |-> Data]
EntryLedger == [name |-> <<"installed_files.txt">>, data |-> <<"a", NL>>]

\* The archives extracted: the empty one, a.txt and dir/b.txt without and
\* with an entry for the directory (before and after its file), and one
\* that holds a file named like the ledger file.
FmArchives ==
    {<< >>,
     <<EntryA>>,
     <<EntryA, EntryDB>>,
     <<EntryD, EntryDB, EntryA>>,
     <<EntryDB, EntryD>>,
     <<EntryLedger, EntryA>>}

NoFailure == [at |-> 0, kind |-> "none"]
\* Where and how an extraction of archive can be made to fail.
Failures(archive) ==
    {NoFailure, [at |-> 0, kind |-> "open"]}
    \cup {[at |-> k, kind |-> kind] :
              k \in 1..Len(archive), kind \in {"by_index", "copy"}}

Range(s) == {s[i] : i \in 1..Len(s)}
AtMostOne(S) == {{}} \cup {{x} : x \in S}

FmInit ==
    /\ files = EmptyFiles
    /\ dirs \in {{}, {PatcherDir}}
    /\ installed_files = << >>
    /\ fmOp = NoArgs("init")
    /\ fmRet = Ok("unit")
    /\ fmCreated = << >>
    /\ fmSaved = None
    /\ fmPhase = "idle"
    /\ ViIdle
    /\ RunIdle
    /\ AuxIdle

\* A new FileManager for the same slug (a later process, or a second
\* instance as in test_installed_files_persistence).
FmNew ==
    /\ installed_files' = FileManager_new(files, dirs)
    /\ fmOp' = NoArgs("new")
    /\ fmRet' = Ok("unit")
    /\ UNCHANGED <<files, dirs, fmCreated, fmSaved, fmPhase>>
    /\ UNCHANGED <<viVars, runVars, auxVars>>

\* The destinations of an extraction: the patcher directory, as in
\* run_launcher, and a directory outside it.
OutsideDir == <<"/", "tmp">>
Destinations == {PatcherDir, OutsideDir}
\* Every archive is extracted into the patcher directory, the first two
\* also into the directory outside it.
Extractions ==
    {e \in FmArchives \X Destinations :
        e[2] = OutsideDir => e[1] \in {<< >>, <<EntryA>>}}

FmExtractZip ==
    \E e \in Extractions :
        \E fail \in Failures(e[1]) :
            \E r \in {extract_zip(files, dirs, installed_files, e[1],
                                 e[2], fail)} :
                /\ files' = r.files
                /\ dirs' = r.dirs
                /\ installed_files' = r.installed
                /\ fmOp' = NoArgs("extract_zip")
                /\ fmRet' = r.result
                /\ fmCreated' = r.created
                /\ fmPhase' = IF IsOk(r.result) THEN "extracted" ELSE "idle"
                /\ UNCHANGED fmSaved
                /\ callArgs' = [archive |-> e[1], destination |-> e[2]]
                /\ UNCHANGED <<viVars, runVars, auxRest>>

FmRemoveOldFiles ==
    \E stuck \in AtMostOne(Range(installed_files)),
       unreadable \in AtMostOne(Range(installed_files)) :
        \E r \in {remove_old_files(files, dirs, installed_files,
                                     stuck, unreadable)} :
            /\ files' = r.files
            /\ dirs' = r.dirs
            /\ fmOp' = NoArgs("remove_old_files")
            /\ fmRet' = r.result
            /\ fmPhase' = IF fmPhase = "extracted" /\ stuck = {} /\ unreadable = {}
                          THEN "cleaned" ELSE "idle"
            /\ UNCHANGED <<installed_files, fmCreated, fmSaved>>
            /\ callArgs' = [stuck |-> stuck, unreadable |-> unreadable]
            /\ UNCHANGED <<viVars, runVars, auxRest>>

FmNext == FmNew \/ FmExtractZip \/ FmRemoveOldFiles

SpecFiles == FmInit /\ [][FmNext]_vars

-----------------------------------------------------------------------------
(* ManifestManager (src/manifest/mod.rs).  The manifest text is a sequence *)
(* of tokens; "{" and "}" are tokens of their own.                         *)

RECURSIVE Replace(_, _, _)
\* str::replace: every occurrence of pat, left to right, becomes val.
Replace(text, pat, val) ==
    IF Len(text) < Len(pat) THEN text
    ELSE IF SubSeq(text, 1, Len(pat)) = pat
    THEN val \o Replace(SubSeq(text, Len(pat) + 1, Len(text)), pat, val)
    ELSE <<Head(text)>> \o Replace(Tail(text), pat, val)

\* format!("{{{}}}", key)
Placeholder(key) == <<"{", key, "}">>

RECURSIVE ReplaceAll(_, _, _)
\* The loop of resolve_variables over the variables in the order the map
\* yields them.
ReplaceAll(text, variables, order) ==
    IF order = << >> THEN text
    ELSE ReplaceAll(Replace(text, Placeholder(Head(order)), variables[Head(order)]),
                    variables, Tail(order))

resolve_variables_unchecked(input, variables, order) ==
    Ok(ReplaceAll(input, variables, order))

\* ManifestManager::resolve_variables
resolve_variables(input, variables, order) ==
    LET result == ReplaceAll(input, variables, order)
    IN  IF "{" \in Range(result) /\ "}" \in Range(result)
        THEN Err("Manifest error: Unresolved variables in manifest")
        ELSE Ok(result)

\* ManifestManager::new: the text is a manifest when it opens with the
\* token "json"; the target and the values of one argument group follow,
\* separated by ",".
ManifestManager_new(manifest_content) ==
    IF manifest_content = << >> \/ Head(manifest_content) # "json"
    THEN Err("JSON error")
    ELSE LET parts == Split(Tail(manifest_content), ",")
         IN  Ok([target |-> parts[1],
                 target_arguments |-> IF Len(parts) = 1 THEN << >>
                                      ELSE <<Tail(parts)>>])

\* ManifestManager::get_target
get_target(manifest, variables, order) ==
    resolve_variables(manifest.target, variables, order)

\* All the values of all the argument groups, in order.
RECURSIVE Flatten(_)
Flatten(groups) ==
    IF groups = << >> THEN << >> ELSE Head(groups) \o Flatten(Tail(groups))

RECURSIVE ResolveEach(_, _, _, _)
ResolveEach(values, variables, order, resolved_args) ==
    IF values = << >> THEN Ok(resolved_args)
    ELSE LET resolved == resolve_variables(Head(values), variables, order)
         IN  IF IsErr(resolved) THEN resolved
             ELSE ResolveEach(Tail(values), variables, order,
                              Append(resolved_args, resolved[2]))

get_arguments_first_only(manifest, variables, order) ==
    ResolveEach(IF Flatten(manifest.target_arguments) = << >> THEN << >>
                ELSE <<Head(Flatten(manifest.target_arguments))>>,
                variables, order, << >>)

\* ManifestManager::get_arguments
get_arguments(manifest, variables, order) ==
    ResolveEach(Flatten(manifest.target_arguments), variables, order, << >>)

-----------------------------------------------------------------------------
(* The runner: main's worker thread runs run_launcher once per start of    *)
(* the program; the front end holds the receiving end of the channel.      *)

\* launcher_data.app_secret[..8]
SlugLen == 8

AppSecret(n) == [i \in 1..n |-> "s"]
\* What launcher.dat decodes to: an app secret of at least 8 characters, and
\* one that is shorter.
LauncherDatas ==
    {[patcher_secret |-> <<"p">>, app_secret |-> AppSecret(SlugLen)],
     [patcher_secret |-> <<"p">>, app_secret |-> AppSecret(SlugLen - 1)]}
\* File::open("launcher.dat") and LauncherData::from_binary
DatResults == {Err("DAT file error")} \cup {Ok(d) : d \in LauncherDatas}

\* What each of NETWORK_TEST_URLS answers: "ok" (success, and for the first
\* the body ok), "other" (success with another body) or "unreachable".
ConnResponses ==
    {r \in [1..3 -> {"ok", "other", "unreachable"}] :
        r[2] # "other" /\ r[3] # "other"}

check_connection_always(responses) == TRUE

\* NetworkManager::check_connection
check_connection(responses) ==
    \E i \in 1..3 : responses[i] = "ok"

\* NetworkManager::get_app_info: the app's patcher secret, none, or an error.
AppInfoResults ==
    {Err("Network error"), Ok([patcher_secret |-> None]),
     Ok([patcher_secret |-> Some(<<"q">>)])}

\* NetworkManager::get_latest_version
LatestVersionResults == {Err("Network error"), Ok(<<"1">>), Ok(<<"2">>)}

\* NetworkManager::get_content_urls
ContentUrlsResults == {Err("Network error"), Ok(<< >>), Ok(<<"url">>)}

GoodManifest ==
    <<"json", "{", "exedir", "}", "/", "App", ",",
      "--lockfile", ",", "{", "lockfile", "}">>
UnboundManifest == <<"json", "{", "exedir", "}", "/", "{", "app", "}">>
EntryManifest(text) == [name |-> <<"patcher.manifest">>, data |-> text]

\* An archive entry named like the version file.
EntryVersion == [name |-> <<"version.txt">>, data |-> Data]

\* The packages the server hands out: a launcher with its manifest, one in
\* a directory, one without a manifest, one whose manifest names a variable
\* the runner does not set, one whose manifest is no JSON, and one that
\* holds files named like the version file and the ledger file.
Packages ==
    {<<EntryManifest(GoodManifest), EntryA>>,
     <<EntryManifest(GoodManifest), EntryD, EntryDB>>,
     <<EntryA>>,
     <<EntryManifest(UnboundManifest)>>,
     <<EntryManifest(<<"{">>)>>,
     <<EntryManifest(GoodManifest), EntryVersion, EntryLedger>>}

\* tempfile() and NetworkManager::download_file: the error, or the archive
\* now in the temporary file, and how many chunks arrived.
DownloadResults ==
    {[result |-> Err("Failed to create temporary file"), chunks |-> 0]}
    \cup {[result |-> Err(e), chunks |-> k] :
              e \in {"Network error", "I/O error"}, k \in 0..MaxChunks}
    \cup {[result |-> Ok(a), chunks |-> k] : a \in Packages, k \in 1..MaxChunks}

\* Launcher::launch_executable
LaunchResults == {Ok("unit"), Err("I/O error"), Err("Launcher exited with status")}

\* The variables launch_from_manifest sets.
ManifestVariables ==
    [k \in {"exedir", "installdir", "secret", "lockfile", "network-status"} |->
        CASE k = "exedir" -> <<"Patcher">>
          [] k = "installdir" -> <<"app">>
          [] k = "secret" -> <<"encoded_secret">>   \* encode_secret(app_secret), one token
          [] k = "lockfile" -> <<"launcher.lock">>
          [] k = "network-status" -> <<"online">>]
\* Orders in which the map yields its keys.
VariableOrders ==
    {<<"exedir", "installdir", "secret", "lockfile", "network-status">>,
     <<"network-status", "lockfile", "secret", "installdir", "exedir">>}

SetStatus(text) == [type |-> "SetStatus", text |-> text]
SetDownloadProgress == [type |-> "SetDownloadProgress", text |-> ""]
SetProgress == [type |-> "SetProgress", text |-> "1.0"]
Close == [type |-> "Close", text |-> ""]
ShowError(text) == [type |-> "ShowError", text |-> text]

\* sender.send(msg): the channel takes the message while the receiver lives.
Send(log, msg) == Append(log, [msg |-> msg, ok |-> uiAlive])
RECURSIVE SendTimes(_, _, _)
SendTimes(log, msg, n) ==
    IF n = 0 THEN log ELSE SendTimes(Send(log, msg), msg, n - 1)
\* The error a failed send maps to.
SendError == "sending on a closed channel"

Terminal == {"done", "failed", "panicked", "killed"}

Fail_silent(e, log) ==
    /\ pc' = "failed"
    /\ error' = e
    /\ sent' = log

\* run_launcher returns Err(e): the worker's closure sends ShowError and
\* ends.  log holds what the step sent before it failed.
Fail(e, log) ==
    /\ pc' = "failed"
    /\ error' = e
    /\ sent' = Send(log, ShowError(e))

\* The step reads no more than it is given and goes on at next.
GoOn(next, log) ==
    /\ pc' = next
    /\ sent' = log
    /\ UNCHANGED error

\* The program is started for the first time: nothing is installed, or
\* something else left a directory where the version file goes.
Init ==
    /\ files = EmptyFiles
    /\ dirs \in {{}, {PatcherDir, VersionFile}}
    /\ installed_files = << >>
    /\ fmOp = NoArgs("init")
    /\ fmRet = Ok("unit")
    /\ fmCreated = << >>
    /\ fmSaved = None
    /\ fmPhase = "idle"
    /\ ViIdle
    /\ AuxIdle
    /\ pc = "start"
    /\ run = 1
    /\ launcher_data = None
    /\ run_patcher_secret = << >>
    /\ run_version = << >>
    /\ download = None
    /\ error = ""
    /\ sent = << >>
    /\ uiAlive = TRUE
    /\ steps = << >>
    /\ endpoints = "unknown"
    /\ matched = "unknown"
    /\ launched = None
    /\ fs0 = [files |-> files, dirs |-> dirs]

fmGhost == <<fmOp, fmRet, fmCreated, fmSaved, fmPhase>>
\* A run keeps in callArgs the calls it made with a patcher secret, and what
\* the app-info lookup returned.
Called(fn, secret) == Append(callArgs, [fn |-> fn, patcher_secret |-> secret])

\* A run keeps in callRet the directory its extract_zip was given and the
\* path its launch_from_manifest read the manifest from.
PathUsed(fn, path) == Append(callRet, [fn |-> fn, path |-> path])

\* The program is started again after it ended.
StartRun ==
    /\ pc \in Terminal
    /\ run < MaxRuns
    /\ pc' = "start"
    /\ run' = run + 1
    /\ launcher_data' = None
    /\ run_patcher_secret' = << >>
    /\ run_version' = << >>
    /\ download' = None
    /\ error' = ""
    /\ sent' = << >>
    /\ uiAlive' = TRUE
    /\ steps' = << >>
    /\ endpoints' = "unknown"
    /\ matched' = "unknown"
    /\ launched' = None
    /\ fs0' = [files |-> files, dirs |-> dirs]
    /\ installed_files' = << >>
    /\ callArgs' = << >>
    /\ callRet' = << >>
    /\ UNCHANGED <<files, dirs, fmGhost, viVars, callOp, lock, now, peers>>

\* run_launcher: launcher.dat is opened and decoded.
ReadLauncherDat ==
    /\ pc = "start"
    /\ steps' = Append(steps, "read_dat")
    /\ \E r \in DatResults :
        IF IsErr(r)
        THEN Fail(r[2], sent) /\ UNCHANGED launcher_data
        ELSE GoOn("new", sent) /\ launcher_data' = Some(r[2])
    /\ UNCHANGED <<files, dirs, installed_files, fmGhost, viVars, auxVars>>
    /\ UNCHANGED <<run, run_patcher_secret, run_version, download, uiAlive,
                   endpoints, matched, launched, fs0>>

NewFileManager_creates_dir ==
    /\ pc = "new"
    /\ steps' = Append(steps, "new")
    /\ IF Len(launcher_data[1].app_secret) < SlugLen
       THEN /\ pc' = "panicked"
            /\ UNCHANGED <<error, sent, installed_files, dirs>>
       ELSE \E r \in {Ok("unit"), Err("I/O error"), Err("File system error")} :
            IF IsErr(r)
            THEN Fail(r[2], sent) /\ UNCHANGED <<installed_files, dirs>>
            ELSE /\ GoOn("check_connection", sent)
                 /\ installed_files' = FileManager_new(files, dirs)
                 /\ dirs' = dirs \cup {PatcherDir}
    /\ UNCHANGED <<files, fmGhost, viVars, auxVars>>
    /\ UNCHANGED <<run, launcher_data, run_patcher_secret, run_version, download,
                   uiAlive, endpoints, matched, launched, fs0>>

\* run_launcher: the slug is cut from the app secret, FileManager::new and
\* get_patcher_dir are called.
NewFileManager ==
    /\ pc = "new"
    /\ steps' = Append(steps, "new")
    /\ IF Len(launcher_data[1].app_secret) < SlugLen
       THEN /\ pc' = "panicked"
            /\ UNCHANGED <<error, sent, installed_files>>
       ELSE \E r \in {Ok("unit"), Err("I/O error"), Err("File system error")} :
            IF IsErr(r)
            THEN Fail(r[2], sent) /\ UNCHANGED installed_files
            ELSE /\ GoOn("check_connection", sent)
                 /\ installed_files' = FileManager_new(files, dirs)
    /\ UNCHANGED <<files, dirs, fmGhost, viVars, auxVars>>
    /\ UNCHANGED <<run, launcher_data, run_patcher_secret, run_version, download,
                   uiAlive, endpoints, matched, launched, fs0>>

\* run_launcher: the connectivity check.
CheckConnection ==
    /\ pc = "check_connection"
    /\ LET log == Send(sent, SetStatus("Checking network connection..."))
       IN  IF ~uiAlive
           THEN Fail(SendError, log) /\ UNCHANGED <<steps, endpoints>>
           ELSE /\ steps' = Append(steps, "check_connection")
                /\ \E responses \in ConnResponses :
                    /\ endpoints' =
                           IF \A i \in 1..3 : responses[i] = "unreachable"
                           THEN "none" ELSE "some"
                    /\ IF check_connection(responses)
                       THEN GoOn("get_app_info", log)
                       ELSE Fail("No internet connection", log)
    /\ UNCHANGED <<files, dirs, installed_files, fmGhost, viVars, auxVars>>
    /\ UNCHANGED <<run, launcher_data, run_patcher_secret, run_version, download,
                   uiAlive, matched, launched, fs0>>

\* run_launcher: the app info names the patcher secret to use, the one of
\* launcher.dat is the fallback.
GetAppInfo ==
    /\ pc = "get_app_info"
    /\ LET log == Send(sent, SetStatus("Fetching app info..."))
       IN  IF ~uiAlive
           THEN Fail(SendError, log) /\ UNCHANGED <<steps, run_patcher_secret, callArgs>>
           ELSE /\ steps' = Append(steps, "get_app_info")
                /\ \E r \in AppInfoResults :
                    IF IsErr(r)
                    THEN Fail(r[2], log) /\ UNCHANGED <<run_patcher_secret, callArgs>>
                    ELSE /\ GoOn("get_latest_version", log)
                         /\ callArgs' = Called("get_app_info", r[2].patcher_secret)
                         /\ run_patcher_secret' =
                                IF IsSome(r[2].patcher_secret)
                                THEN r[2].patcher_secret[1]
                                ELSE launcher_data[1].patcher_secret
    /\ UNCHANGED <<files, dirs, installed_files, fmGhost, viVars, auxRest>>
    /\ UNCHANGED <<run, launcher_data, run_version, download, uiAlive,
                   endpoints, matched, launched, fs0>>

\* run_launcher: the latest version of the patcher.
GetLatestVersion ==
    /\ pc = "get_latest_version"
    /\ LET log == Send(sent, SetStatus("Fetching latest version..."))
       IN  IF ~uiAlive
           THEN Fail(SendError, log) /\ UNCHANGED <<steps, run_version, callArgs>>
           ELSE /\ steps' = Append(steps, "get_latest_version")
                /\ callArgs' = Called("get_latest_version", run_patcher_secret)
                /\ \E r \in LatestVersionResults :
                    IF IsErr(r)
                    THEN Fail(r[2], log) /\ UNCHANGED run_version
                    ELSE GoOn("needs_update", log) /\ run_version' = r[2]
    /\ UNCHANGED <<files, dirs, installed_files, fmGhost, viVars, auxRest>>
    /\ UNCHANGED <<run, launcher_data, run_patcher_secret, download, uiAlive,
                   endpoints, matched, launched, fs0>>

\* The identity version.txt holds is the one the server named.
StoredIsLatest ==
    /\ IsFile(files, VersionFile)
    /\ from_string(files[VersionFile]) =
           Some(VersionInfo_new(run_version, run_patcher_secret))

NeedsUpdate_always ==
    /\ pc = "needs_update"
    /\ steps' = Append(steps, "needs_update")
    /\ callArgs' = Called("needs_update", run_patcher_secret)
    /\ matched' = IF StoredIsLatest THEN "yes" ELSE "no"
    /\ GoOn("get_content_urls", sent)
    /\ UNCHANGED <<files, dirs, installed_files, fmGhost, viVars, auxRest>>
    /\ UNCHANGED <<run, launcher_data, run_patcher_secret, run_version, download,
                   uiAlive, endpoints, launched, fs0>>

\* run_launcher: the stored identity is compared with the server's; the
\* up-to-date path goes to launch_from_manifest, the update path on.
NeedsUpdate ==
    /\ pc = "needs_update"
    /\ steps' = Append(steps, "needs_update")
    /\ callArgs' = Called("needs_update", run_patcher_secret)
    /\ matched' = IF StoredIsLatest THEN "yes" ELSE "no"
    /\ \E r \in {needs_update(files, dirs, run_version, run_patcher_secret)} :
        IF IsErr(r) THEN Fail("I/O error", sent)
        ELSE IF ~r[2] THEN GoOn("launch", sent)
        ELSE GoOn("get_content_urls", sent)
    /\ UNCHANGED <<files, dirs, installed_files, fmGhost, viVars, auxRest>>
    /\ UNCHANGED <<run, launcher_data, run_patcher_secret, run_version, download,
                   uiAlive, endpoints, launched, fs0>>

\* run_launcher: the download URLs; with none the run ends here.
GetContentUrls ==
    /\ pc = "get_content_urls"
    /\ LET log == Send(sent, SetStatus("Getting download URLs..."))
       IN  IF ~uiAlive
           THEN Fail(SendError, log) /\ UNCHANGED <<steps, callArgs>>
           ELSE /\ steps' = Append(steps, "get_content_urls")
                /\ callArgs' = Called("get_content_urls", run_patcher_secret)
                /\ \E r \in ContentUrlsResults :
                    IF IsErr(r) THEN Fail(r[2], log)
                    ELSE IF r[2] = << >> THEN GoOn("done", log)
                    ELSE GoOn("download_file", log)
    /\ UNCHANGED <<files, dirs, installed_files, fmGhost, viVars, auxRest>>
    /\ UNCHANGED <<run, launcher_data, run_patcher_secret, run_version, download,
                   uiAlive, endpoints, matched, launched, fs0>>

DownloadFile_then_extract ==
    /\ pc = "download_file"
    /\ LET log == Send(sent, SetStatus("Downloading launcher..."))
       IN  IF ~uiAlive
           THEN Fail(SendError, log) /\ UNCHANGED <<steps, download>>
           ELSE /\ steps' = Append(steps, "download_file")
                /\ \E r \in DownloadResults :
                    LET log2 == SendTimes(log, SetDownloadProgress, r.chunks)
                    IN  IF IsErr(r.result)
                        THEN Fail(r.result[2], log2) /\ UNCHANGED download
                        ELSE /\ GoOn("extract_zip", log2)
                             /\ download' = Some(r.result[2])
    /\ UNCHANGED <<files, dirs, installed_files, fmGhost, viVars, auxVars>>
    /\ UNCHANGED <<run, launcher_data, run_patcher_secret, run_version, uiAlive,
                   endpoints, matched, launched, fs0>>

\* run_launcher: the package is downloaded into a temporary file; each
\* chunk reports progress, and that send may fail.
DownloadFile ==
    /\ pc = "download_file"
    /\ LET log == Send(sent, SetStatus("Downloading launcher..."))
       IN  IF ~uiAlive
           THEN Fail(SendError, log) /\ UNCHANGED <<steps, download>>
           ELSE /\ steps' = Append(steps, "download_file")
                /\ \E r \in DownloadResults :
                    LET log2 == SendTimes(log, SetDownloadProgress, r.chunks)
                    IN  IF IsErr(r.result)
                        THEN Fail(r.result[2], log2) /\ UNCHANGED download
                        ELSE /\ GoOn("remove_old_files", log2)
                             /\ download' = Some(r.result[2])
    /\ UNCHANGED <<files, dirs, installed_files, fmGhost, viVars, auxVars>>
    /\ UNCHANGED <<run, launcher_data, run_patcher_secret, run_version, uiAlive,
                   endpoints, matched, launched, fs0>>

\* run_launcher: the files of the ledger are removed.  The temporary file
\* goes when run_launcher returns.
RemoveOldFiles ==
    /\ pc = "remove_old_files"
    /\ LET log == Send(sent, SetStatus("Extracting launcher..."))
       IN  IF ~uiAlive
           THEN /\ Fail(SendError, log)
                /\ download' = None
                /\ UNCHANGED <<steps, files, dirs>>
           ELSE /\ steps' = Append(steps, "remove_old_files")
                /\ \E stuck \in AtMostOne(Range(installed_files)),
                      unreadable \in AtMostOne(Range(installed_files)) :
                    \E r \in {remove_old_files(files, dirs, installed_files,
                                                 stuck, unreadable)} :
                        /\ files' = r.files
                        /\ dirs' = r.dirs
                        /\ IF IsErr(r.result)
                           THEN Fail("I/O error", log) /\ download' = None
                           ELSE GoOn("extract_zip", log) /\ UNCHANGED download
    /\ UNCHANGED <<installed_files, fmGhost, viVars, auxVars>>
    /\ UNCHANGED <<run, launcher_data, run_patcher_secret, run_version, uiAlive,
                   endpoints, matched, launched, fs0>>

ExtractZip_then_launch ==
    /\ pc = "extract_zip"
    /\ steps' = Append(steps, "extract_zip")
    /\ \E fail \in Failures(download[1]) :
        \E r \in {extract_zip(files, dirs, installed_files, download[1],
                             PatcherDir, fail)} :
            /\ files' = r.files
            /\ dirs' = r.dirs
            /\ installed_files' = r.installed
            /\ IF IsErr(r.result)
               THEN Fail(IF r.result[2] = "Zip" THEN "ZIP error" ELSE "I/O error",
                         sent)
                    /\ download' = None
               ELSE GoOn("launch", sent) /\ UNCHANGED download
    /\ callRet' = PathUsed("extract_zip", PatcherDir)
    /\ UNCHANGED <<fmGhost, viVars, callOp, callArgs, lock, now, peers>>
    /\ UNCHANGED <<run, launcher_data, run_patcher_secret, run_version, uiAlive,
                   endpoints, matched, launched, fs0>>

\* run_launcher: the package is extracted into the patcher directory.
ExtractZip ==
    /\ pc = "extract_zip"
    /\ steps' = Append(steps, "extract_zip")
    /\ \E fail \in Failures(download[1]) :
        \E r \in {extract_zip(files, dirs, installed_files, download[1],
                             PatcherDir, fail)} :
            /\ files' = r.files
            /\ dirs' = r.dirs
            /\ installed_files' = r.installed
            /\ IF IsErr(r.result)
               THEN Fail(IF r.result[2] = "Zip" THEN "ZIP error" ELSE "I/O error",
                         sent)
                    /\ download' = None
               ELSE GoOn("save_version", sent) /\ UNCHANGED download
    /\ callRet' = PathUsed("extract_zip", PatcherDir)
    /\ UNCHANGED <<fmGhost, viVars, callOp, callArgs, lock, now, peers>>
    /\ UNCHANGED <<run, launcher_data, run_patcher_secret, run_version, uiAlive,
                   endpoints, matched, launched, fs0>>

SaveVersion_credential_secret ==
    /\ pc = "save_version"
    /\ steps' = Append(steps, "save_version")
    /\ callArgs' = Called("save_version", launcher_data[1].patcher_secret)
    /\ \E refused \in BOOLEAN :
        \E r \in {IF refused
                   THEN [files |-> files, dirs |-> dirs, result |-> Err("Io")]
                   ELSE save_version(files, dirs, run_version,
                                     launcher_data[1].patcher_secret)} :
            /\ files' = r.files
            /\ dirs' = r.dirs
            /\ IF IsErr(r.result) THEN Fail("I/O error", sent)
               ELSE GoOn("launch", sent)
    /\ download' = None
    /\ UNCHANGED <<installed_files, fmGhost, viVars, auxRest>>
    /\ UNCHANGED <<run, launcher_data, run_patcher_secret, run_version, uiAlive,
                   endpoints, matched, launched, fs0>>

\* run_launcher: the identity just installed is written, the temporary
\* file is closed.  refused: the operating system does not let the version
\* file be created.
SaveVersion ==
    /\ pc = "save_version"
    /\ steps' = Append(steps, "save_version")
    /\ callArgs' = Called("save_version", run_patcher_secret)
    /\ \E refused \in BOOLEAN :
        \E r \in {IF refused
                   THEN [files |-> files, dirs |-> dirs, result |-> Err("Io")]
                   ELSE save_version(files, dirs, run_version,
                                     run_patcher_secret)} :
            /\ files' = r.files
            /\ dirs' = r.dirs
            /\ IF IsErr(r.result) THEN Fail("I/O error", sent)
               ELSE GoOn("launch", sent)
    /\ download' = None
    /\ UNCHANGED <<installed_files, fmGhost, viVars, auxRest>>
    /\ UNCHANGED <<run, launcher_data, run_patcher_secret, run_version, uiAlive,
                   endpoints, matched, launched, fs0>>

\* launch_from_manifest up to the return of launch_executable.
LaunchFromManifest ==
    /\ pc = "launch"
    /\ IF ~IsFile(files, ManifestPath)
       THEN /\ Fail("Manifest error: Failed to read manifest", sent)
            /\ steps' = Append(steps, "launch_from_manifest")
            /\ UNCHANGED launched
       ELSE \E m \in {ManifestManager_new(files[ManifestPath])} :
            IF IsErr(m)
            THEN /\ Fail(m[2], sent)
                 /\ steps' = Append(steps, "launch_from_manifest")
                 /\ UNCHANGED launched
            ELSE LET log == Send(sent, SetStatus("Launching..."))
                 IN  IF ~uiAlive
                     THEN /\ Fail(SendError, log)
                          /\ steps' = Append(steps, "launch_from_manifest")
                          /\ UNCHANGED launched
                     ELSE \E order \in VariableOrders :
                          \E target \in {get_target(m[2], ManifestVariables, order)},
                             arguments \in {get_arguments(m[2], ManifestVariables, order)} :
                              IF IsErr(target) \/ IsErr(arguments)
                              THEN /\ Fail(IF IsErr(target) THEN target[2]
                                           ELSE arguments[2], log)
                                   /\ steps' = Append(steps, "launch_from_manifest")
                                   /\ UNCHANGED launched
                              ELSE /\ steps' = steps \o <<"launch_from_manifest",
                                                          "launch_executable">>
                                   /\ launched' = Some([target |-> target[2],
                                                        arguments |-> arguments[2]])
                                   /\ \E r \in LaunchResults :
                                       IF IsErr(r) THEN Fail(r[2], log)
                                       ELSE GoOn("send_progress", log)
    /\ callRet' = PathUsed("read_to_string", ManifestPath)
    /\ UNCHANGED <<files, dirs, installed_files, fmGhost, viVars>>
    /\ UNCHANGED <<callOp, callArgs, lock, now, peers>>
    /\ UNCHANGED <<run, launcher_data, run_patcher_secret, run_version, download,
                   uiAlive, endpoints, matched, fs0>>

SendProgress_skipped ==
    /\ pc = "send_progress"
    /\ GoOn("send_close", sent)
    /\ UNCHANGED <<files, dirs, installed_files, fmGhost, viVars, auxVars>>
    /\ UNCHANGED <<run, launcher_data, run_patcher_secret, run_version, download,
                   uiAlive, steps, endpoints, matched, launched, fs0>>

\* launch_from_manifest: the launch succeeded, the progress bar is filled.
SendProgress ==
    /\ pc = "send_progress"
    /\ IF uiAlive THEN GoOn("send_close", Send(sent, SetProgress))
       ELSE Fail(SendError, Send(sent, SetProgress))
    /\ UNCHANGED <<files, dirs, installed_files, fmGhost, viVars, auxVars>>
    /\ UNCHANGED <<run, launcher_data, run_patcher_secret, run_version, download,
                   uiAlive, steps, endpoints, matched, launched, fs0>>

\* launch_from_manifest: the front end is told to close; run_launcher
\* returns Ok.
SendClose ==
    /\ pc = "send_close"
    /\ IF uiAlive THEN GoOn("done", Send(sent, Close))
       ELSE Fail(SendError, Send(sent, Close))
    /\ UNCHANGED <<files, dirs, installed_files, fmGhost, viVars, auxVars>>
    /\ UNCHANGED <<run, launcher_data, run_patcher_secret, run_version, download,
                   uiAlive, steps, endpoints, matched, launched, fs0>>

\* The window is closed: run_native returns and the receiver is dropped.
UiClose ==
    /\ uiAlive
    /\ uiAlive' = FALSE
    /\ UNCHANGED <<files, dirs, installed_files, fmGhost, viVars, auxVars>>
    /\ UNCHANGED <<pc, run, launcher_data, run_patcher_secret, run_version, download,
                   error, sent, steps, endpoints, matched, launched, fs0>>

\* main returns after the window closed: the process ends and the worker
\* thread with it, wherever it is.
ProcessExit ==
    /\ ~uiAlive
    /\ pc \notin Terminal
    /\ pc' = "killed"
    /\ download' = None
    /\ UNCHANGED <<files, dirs, installed_files, fmGhost, viVars, auxVars>>
    /\ UNCHANGED <<run, launcher_data, run_patcher_secret, run_version,
                   error, sent, uiAlive, steps, endpoints, matched, launched, fs0>>

Next ==
    \/ StartRun
    \/ ReadLauncherDat
    \/ NewFileManager
    \/ CheckConnection
    \/ GetAppInfo
    \/ GetLatestVersion
    \/ NeedsUpdate
    \/ GetContentUrls
    \/ DownloadFile
    \/ RemoveOldFiles
    \/ ExtractZip
    \/ SaveVersion
    \/ LaunchFromManifest
    \/ SendProgress
    \/ SendClose
    \/ UiClose
    \/ ProcessExit

Spec == Init /\ [][Next]_vars

-----------------------------------------------------------------------------
(* The credential codec (src/config/mod.rs, src/config/secret.rs).  A byte *)
(* is a number in 0..255, a reader is the sequence of bytes still unread.  *)

\* decode_byte_array's loop body: the least significant bit goes to the
\* top, the rest moves down, all bits are inverted.
decode_transform(b) ==
    LET lsb == b % 2
        decoded == (b \div 2) + lsb * 128
    IN  255 - decoded

encode_transform_shift_right(b) ==
    LET nb == 255 - b
    IN  (nb \div 2) + (nb % 2) * 128

\* encode_secret's map over the bytes: all bits are inverted, the byte is
\* shifted left (u8: the top bit falls off) and the old top bit comes in
\* at the bottom.
encode_transform(b) ==
    LET nb == 255 - b
        fsb == nb >= 128
    IN  ((nb * 2) % 256) + (IF fsb THEN 1 ELSE 0)

\* tests::encode_byte
encode_byte(b) ==
    LET inverted == 255 - b
        lsb == inverted % 2
    IN  (inverted \div 2) + lsb * 128

DecodeFrom_with_tail(encoded_bytes, i, result) ==
    [k \in 1..((Len(encoded_bytes) + 1) \div 2) |->
        decode_transform(encoded_bytes[2 * k - 1])]

RECURSIVE DecodeFrom(_, _, _)
\* decode_byte_array's loop; i counts from 0 as in the code.
DecodeFrom(encoded_bytes, i, result) ==
    IF ~(i < Len(encoded_bytes)) THEN result
    ELSE DecodeFrom(encoded_bytes, i + 2,
                    IF i + 1 < Len(encoded_bytes)
                    THEN Append(result, decode_transform(encoded_bytes[i + 1]))
                    ELSE result)

decode_byte_array_every_byte(encoded_bytes) ==
    [k \in 1..Len(encoded_bytes) |-> decode_transform(encoded_bytes[k])]

\* decode_byte_array
decode_byte_array(encoded_bytes) == DecodeFrom(encoded_bytes, 0, << >>)

\* A UTF-8 continuation byte.
Cont(b) == b >= 128 /\ b <= 191

RECURSIVE ValidUtf8(_)
\* String::from_utf8 accepts the bytes.
ValidUtf8(bs) ==
    IF bs = << >> THEN TRUE
    ELSE LET b == bs[1]
             n == Len(bs)
         IN  IF b <= 127 THEN ValidUtf8(Tail(bs))
             ELSE IF b >= 194 /\ b <= 223
             THEN n >= 2 /\ Cont(bs[2]) /\ ValidUtf8(SubSeq(bs, 3, n))
             ELSE IF b >= 224 /\ b <= 239
             THEN /\ n >= 3
                  /\ Cont(bs[2])
                  /\ b = 224 => bs[2] >= 160
                  /\ b = 237 => bs[2] <= 159
                  /\ Cont(bs[3])
                  /\ ValidUtf8(SubSeq(bs, 4, n))
             ELSE IF b >= 240 /\ b <= 244
             THEN /\ n >= 4
                  /\ Cont(bs[2])
                  /\ b = 240 => bs[2] >= 144
                  /\ b = 244 => bs[2] <= 143
                  /\ Cont(bs[3])
                  /\ Cont(bs[4])
                  /\ ValidUtf8(SubSeq(bs, 5, n))
             ELSE FALSE

\* u32::to_le_bytes
LE32(n) ==
    <<n % 256, (n \div 256) % 256, (n \div 65536) % 256, (n \div 16777216) % 256>>
\* ReadBytesExt::read_u32::<LittleEndian>
U32LE(bs) == bs[1] + 256 * bs[2] + 65536 * bs[3] + 16777216 * bs[4]

read_encoded_string_allow_empty(reader) ==
    IF Len(reader) < 4 THEN [result |-> Err("I/O error"), rest |-> << >>]
    ELSE LET length == U32LE(reader)
             body == SubSeq(reader, 5, Len(reader))
         IN  IF Len(body) < length
             THEN [result |-> Err("I/O error"), rest |-> << >>]
             ELSE LET decoded_bytes == decode_byte_array(SubSeq(body, 1, length))
                      rest == SubSeq(body, length + 1, Len(body))
                  IN  IF ~ValidUtf8(decoded_bytes)
                      THEN [result |-> Err("DAT file error: Invalid UTF-8"),
                            rest |-> rest]
                      ELSE [result |-> Ok(decoded_bytes), rest |-> rest]

\* read_encoded_string: the string, or the error, and what is left of the
\* reader.
read_encoded_string(reader) ==
    IF Len(reader) < 4 THEN [result |-> Err("I/O error"), rest |-> << >>]
    ELSE LET length == U32LE(reader)
             body == SubSeq(reader, 5, Len(reader))
         IN  IF Len(body) < length
             THEN [result |-> Err("I/O error"), rest |-> << >>]
             ELSE LET decoded_bytes == decode_byte_array(SubSeq(body, 1, length))
                      rest == SubSeq(body, length + 1, Len(body))
                  IN  IF decoded_bytes = << >>
                      THEN [result |-> Err("DAT file error: Decoded string is empty"),
                            rest |-> rest]
                      ELSE IF ~ValidUtf8(decoded_bytes)
                      THEN [result |-> Err("DAT file error: Invalid UTF-8"),
                            rest |-> rest]
                      ELSE [result |-> Ok(decoded_bytes), rest |-> rest]

\* LauncherData::from_binary
from_binary(reader) ==
    LET first == read_encoded_string(reader)
    IN  IF IsErr(first.result) THEN first.result
        ELSE LET second == read_encoded_string(first.rest)
             IN  IF IsErr(second.result) THEN second.result
                 ELSE Ok([patcher_secret |-> first.result[2],
                          app_secret |-> second.result[2]])

-----------------------------------------------------------------------------
(* The codec check: a byte, a string or a credential file is drawn and the *)
(* codec's functions are applied to it.                                    *)

\* char::encode_utf16: the UTF-16 units of a scalar value.
encode_utf16(c) ==
    IF c < 65536 THEN <<c>>
    ELSE <<55296 + ((c - 65536) \div 1024), 56320 + ((c - 65536) % 1024)>>
\* u16::to_le_bytes
to_le_bytes(u) == <<u % 256, u \div 256>>

RECURSIVE Utf16LeBytes(_)
\* str::encode_utf16().flat_map(|c| c.to_le_bytes()): s is the text as its
\* scalar values.
Utf16LeBytes(s) ==
    IF s = << >> THEN << >>
    ELSE LET units == encode_utf16(Head(s))
         IN  to_le_bytes(units[1])
             \o (IF Len(units) = 2 THEN to_le_bytes(units[2]) ELSE << >>)
             \o Utf16LeBytes(Tail(s))

\* The padding character "=" of base64, next to the 64 digits 0..63 that
\* stand for "A".."Z", "a".."z", "0".."9", "+", "/".
Base64Pad == 64

RECURSIVE Base64Encode(_)
\* base64 STANDARD engine, encode: three bytes make four digits; one or two
\* bytes left over make two or three digits and padding.
Base64Encode(bytes) ==
    IF bytes = << >> THEN << >>
    ELSE IF Len(bytes) = 1
    THEN <<bytes[1] \div 4, (bytes[1] % 4) * 16, Base64Pad, Base64Pad>>
    ELSE IF Len(bytes) = 2
    THEN <<bytes[1] \div 4,
           (bytes[1] % 4) * 16 + (bytes[2] \div 16),
           (bytes[2] % 16) * 4,
           Base64Pad>>
    ELSE <<bytes[1] \div 4,
           (bytes[1] % 4) * 16 + (bytes[2] \div 16),
           (bytes[2] % 16) * 4 + (bytes[3] \div 64),
           bytes[3] % 64>>
         \o Base64Encode(SubSeq(bytes, 4, Len(bytes)))

encode_secret_untransformed(decoded_secret) ==
    Base64Encode(Utf16LeBytes(decoded_secret))

\* encode_secret
encode_secret(decoded_secret) ==
    LET utf16_bytes == Utf16LeBytes(decoded_secret)
        encoded == [i \in 1..Len(utf16_bytes) |-> encode_transform(utf16_bytes[i])]
    IN  Base64Encode(encoded)

\* The longest string encoded into a block.
MaxSecretLen == 2
\* The longest block of a credential file.
MaxBlockLen == 4

Bytes == 0..255
PrintableAscii == 32..126
\* ' ', 'A', 't' and '~'
SecretChars == {32, 65, 116, 126}
SecretStrings ==
    TextsUpTo(SecretChars, MaxSecretLen) \cup {<<c>> : c \in PrintableAscii}

\* The bytes of a block in the file: the encodings of 'a', of the two bytes
\* of U+00E9 and of 0xFF, which no UTF-8 text holds, and the zero byte.
BlockBytes ==
    {encode_transform(97), encode_transform(195), encode_transform(169),
     encode_transform(255), 0}
Blocks == TextsUpTo(BlockBytes, MaxBlockLen)
\* The second block of the files drawn: the encoding of "a", the empty
\* block, a single byte, and a byte that is no text.
SecondBlocks ==
    {<<encode_transform(97), 0>>, << >>, <<encode_transform(97)>>,
     <<encode_transform(255), 0>>}

\* The test's and the writer's framing: each byte is followed by a zero.
RECURSIVE PairWithZero(_)
PairWithZero(bs) ==
    IF bs = << >> THEN << >> ELSE <<Head(bs), 0>> \o PairWithZero(Tail(bs))
\* A block behind its length.
Frame(block) == LE32(Len(block)) \o block

\* The secrets encoded for the server, as scalar values: "A", U+00E9,
\* U+20AC and U+1F600, which takes two UTF-16 units.
SecretTexts == TextsUpTo({65, 233, 8364, 128512}, MaxSecretLen)

CodecInput(kind, v, first, second) ==
    [kind |-> kind, v |-> v, first |-> first, second |-> second]
CodecInputs ==
    {CodecInput("byte", <<b>>, << >>, << >>) : b \in Bytes}
    \cup {CodecInput("string", s, << >>, << >>) : s \in SecretStrings}
    \cup {CodecInput("text", s, << >>, << >>) : s \in SecretTexts}
    \cup {CodecInput("file", Frame(f) \o Frame(g), f, g) :
              f \in Blocks, g \in SecondBlocks}
    \cup {CodecInput("cut", SubSeq(Frame(f), 1, Len(Frame(f)) - 1), f, << >>) :
              f \in Blocks}

otherVarsCodec == <<fmVars, viVars, runVars, lock, now, peers>>

CdInit ==
    /\ callOp = << >>
    /\ callArgs \in CodecInputs
    /\ callRet = << >>
    /\ lock = None
    /\ now = 0
    /\ peers = << >>
    /\ FmIdle
    /\ ViIdle
    /\ RunIdle

\* The byte the next transform is applied to.
CdByte == IF callOp = << >> THEN callArgs.v[1] ELSE callRet[1]

\* decode_byte_array on the byte and its zero.
CdDecodeByte ==
    /\ callArgs.kind = "byte"
    /\ Len(callOp) < 2
    /\ callRet' = decode_byte_array(<<CdByte, 0>>)
    /\ callOp' = Append(callOp, "decode_byte_array")
    /\ UNCHANGED <<callArgs, otherVarsCodec>>

\* encode_secret's transform on the byte.
CdEncodeTransform ==
    /\ callArgs.kind = "byte"
    /\ Len(callOp) < 2
    /\ callRet' = <<encode_transform(CdByte)>>
    /\ callOp' = Append(callOp, "encode_transform")
    /\ UNCHANGED <<callArgs, otherVarsCodec>>

\* The test helper on the byte.
CdEncodeByte ==
    /\ callArgs.kind = "byte"
    /\ callOp = << >>
    /\ callRet' = <<encode_byte(CdByte)>>
    /\ callOp' = <<"encode_byte">>
    /\ UNCHANGED <<callArgs, otherVarsCodec>>

\* The block of the string: each byte through encode_secret's transform,
\* paired with a zero, behind the length.
CdCredentialBlock ==
    /\ callArgs.kind = "string"
    /\ callOp = << >>
    /\ callRet' = Frame(PairWithZero([k \in 1..Len(callArgs.v) |->
                                         encode_transform(callArgs.v[k])]))
    /\ callOp' = <<"credential_block">>
    /\ UNCHANGED <<callArgs, otherVarsCodec>>

\* The block as test_read_encoded_string builds it.
CdTestBlock ==
    /\ callArgs.kind = "string"
    /\ callOp = << >>
    /\ callRet' = Frame(PairWithZero([k \in 1..Len(callArgs.v) |->
                                         encode_byte(callArgs.v[k])]))
    /\ callOp' = <<"test_block">>
    /\ UNCHANGED <<callArgs, otherVarsCodec>>

\* read_encoded_string on the block just built, or on the file drawn.
CdReadEncodedString ==
    /\ \/ callArgs.kind = "string" /\ Len(callOp) = 1
       \/ callArgs.kind \in {"file", "cut"} /\ callOp = << >>
    /\ callRet' = read_encoded_string(IF callArgs.kind = "string" THEN callRet
                                      ELSE callArgs.v).result
    /\ callOp' = Append(callOp, "read_encoded_string")
    /\ UNCHANGED <<callArgs, otherVarsCodec>>

\* from_binary on the file drawn.
CdFromBinary ==
    /\ callArgs.kind \in {"file", "cut"}
    /\ callOp = << >>
    /\ callRet' = from_binary(callArgs.v)
    /\ callOp' = <<"from_binary">>
    /\ UNCHANGED <<callArgs, otherVarsCodec>>

\* decode_byte_array on the bytes of the cut file's block, whatever stands
\* between the kept bytes and whether the last byte has a partner.
CdDecodeByteArray ==
    /\ callArgs.kind = "cut"
    /\ callOp = << >>
    /\ callRet' = decode_byte_array(callArgs.first)
    /\ callOp' = <<"decode_byte_array">>
    /\ UNCHANGED <<callArgs, otherVarsCodec>>

\* encode_secret on the text drawn.
CdEncodeSecret ==
    /\ callArgs.kind = "text"
    /\ callOp = << >>
    /\ callRet' = encode_secret(callArgs.v)
    /\ callOp' = <<"encode_secret">>
    /\ UNCHANGED <<callArgs, otherVarsCodec>>

CdNext ==
    \/ CdEncodeSecret
    \/ CdDecodeByteArray
    \/ CdDecodeByte
    \/ CdEncodeTransform
    \/ CdEncodeByte
    \/ CdCredentialBlock
    \/ CdTestBlock
    \/ CdReadEncodedString
    \/ CdFromBinary

SpecCodec == CdInit /\ [][CdNext]_vars

-----------------------------------------------------------------------------
(* The manifest check: a manifest, the variables set and the order in      *)
(* which the map yields them are drawn; get_target or get_arguments is     *)
(* called.                                                                 *)

\* The longest target template.
MaxTemplateLen == 3
\* The most argument groups of a manifest.
MaxGroups == 2

VariableNames == {"x", "y"}
\* The values a variable is set to: plain ones, ones that look like a
\* placeholder, and a lone brace.
VariableValues ==
    {<<"v">>, <<"/", "w">>, <<"{", "y", "}">>, <<"{", "a", "}">>, <<"}">>}
\* HashMap<String, String> after any calls of set_variable.
VariableMaps ==
    UNION {[D -> VariableValues] : D \in SUBSET VariableNames}
\* The orders in which a map with these keys can yield them.
KeyOrders(D) ==
    {o \in UNION {[1..n -> D] : n \in {Cardinality(D)}} :
        \A i, j \in 1..Cardinality(D) : o[i] = o[j] => i = j}

Templates ==
    TextsUpTo({"{", "}", "x", "/"}, MaxTemplateLen)
    \cup {<<"{", "y", "}">>, <<"{", "x", "}", "/", "{", "y", "}">>,
          <<"{", "x", "}", "/", "{", "x", "}">>}
\* TargetArgument::value: no value, one, and two values of which one holds
\* a placeholder.
ArgumentGroups ==
    {<< >>,
     <<<<"-a">>>>,
     <<<<"-a">>, <<"{", "x", "}">>>>,
     <<<<"{", "y", "}", "/">>, <<"-a">>>>}
\* Manifest::target_arguments
GroupLists == TextsUpTo(ArgumentGroups, MaxGroups)

Manifests ==
    {[target |-> t, target_arguments |-> << >>] : t \in Templates}
    \cup {[target |-> <<"App">>, target_arguments |-> g] : g \in GroupLists}

\* A map together with an order in which it yields its keys.
VariableInputs ==
    {vo \in VariableMaps \X UNION {KeyOrders(D) : D \in SUBSET VariableNames} :
        Range(vo[2]) = DOMAIN vo[1]}

ManifestInputs ==
    {[manifest |-> m, variables |-> vo[1], order |-> vo[2]] :
        m \in Manifests, vo \in VariableInputs}

otherVarsManifest == <<fmVars, viVars, runVars, lock, now, peers>>

MfInit ==
    /\ callOp = << >>
    /\ callArgs \in ManifestInputs
    /\ callRet = << >>
    /\ lock = None
    /\ now = 0
    /\ peers = << >>
    /\ FmIdle
    /\ ViIdle
    /\ RunIdle

MfGetTarget ==
    /\ callOp = << >>
    /\ callRet' = get_target(callArgs.manifest, callArgs.variables, callArgs.order)
    /\ callOp' = <<"get_target">>
    /\ UNCHANGED <<callArgs, otherVarsManifest>>

MfGetArguments ==
    /\ callOp = << >>
    /\ callRet' = get_arguments(callArgs.manifest, callArgs.variables,
                                callArgs.order)
    /\ callOp' = <<"get_arguments">>
    /\ UNCHANGED <<callArgs, otherVarsManifest>>

MfNext == MfGetTarget \/ MfGetArguments

SpecManifest == MfInit /\ [][MfNext]_vars

-----------------------------------------------------------------------------
(* Properties of the VersionInfo check (SpecVI) *)

NonEmptyNoColon(info) ==
    /\ info.patcher_secret # << >> /\ ":" \notin Range(info.patcher_secret)
    /\ info.version # << >> /\ ":" \notin Range(info.version)

\* trim leaves the formatted text as it is.
NoOuterWhitespace(info) ==
    /\ info.patcher_secret = << >> \/ Head(info.patcher_secret) \notin Whitespace
    /\ info.version = << >> \/ info.version[Len(info.version)] \notin Whitespace

-----------------------------------------------------------------------------
(* Properties of version management (SpecVersion) *)

\* The version identity the version file holds, None when there is no file
\* or its text is no version identity.
Stored ==
    IF IsFile(files, VersionFile) THEN from_string(files[VersionFile]) ELSE None

ColonCount(text) == Cardinality({i \in 1..Len(text) : text[i] = ":"})

\* C1: needs_update(v, s) returns true when no version is stored; when one
\* is stored it returns false exactly when v and s both equal the stored
\* version and patcher secret, and true when either differs.
C1_NeedsUpdate ==
    fmOp.op = "needs_update" =>
        /\ IsOk(fmRet)
        /\ fmRet[2] = (\/ Stored = None
                       \/ Stored[1].version # fmOp.version
                       \/ Stored[1].patcher_secret # fmOp.patcher_secret)

\* needs_update was asked about the stored version with another patcher
\* secret and returned true.
C1_Witness ==
    /\ fmOp.op = "needs_update"
    /\ Stored # None
    /\ Stored[1].version = fmOp.version
    /\ Stored[1].patcher_secret # fmOp.patcher_secret
    /\ fmRet = Ok(TRUE)

\* Neither string holds ':', the secret does not start and the version does
\* not end with whitespace.
PlainIdentity(info) ==
    /\ ":" \notin Range(info.patcher_secret) \cup Range(info.version)
    /\ NoOuterWhitespace(info)

\* C8 as stated: after save_version(v, s), whatever v and s are,
\* get_current_version returns {s, v} and needs_update(v, s) returns false.
C8_SaveThenReadAsStated ==
    fmSaved # None =>
        /\ fmOp.op = "get_current_version" => fmRet = Ok(fmSaved)
        /\ (/\ fmOp.op = "needs_update"
            /\ fmOp.version = fmSaved[1].version
            /\ fmOp.patcher_secret = fmSaved[1].patcher_secret)
               => fmRet = Ok(FALSE)

\* C8 amended: the same for every v and s that hold no ':' where s does not
\* start with whitespace and v does not end with whitespace.
C8_SaveThenRead ==
    (fmSaved # None /\ PlainIdentity(fmSaved[1])) =>
        /\ fmOp.op = "get_current_version" => fmRet = Ok(fmSaved)
        /\ (/\ fmOp.op = "needs_update"
            /\ fmOp.version = fmSaved[1].version
            /\ fmOp.patcher_secret = fmSaved[1].patcher_secret)
               => fmRet = Ok(FALSE)

\* needs_update(v, s) returned false after save_version(v, s).
C8_Witness ==
    /\ fmSaved # None
    /\ PlainIdentity(fmSaved[1])
    /\ fmOp = [op |-> "needs_update", version |-> fmSaved[1].version,
               patcher_secret |-> fmSaved[1].patcher_secret]
    /\ fmRet = Ok(FALSE)

-----------------------------------------------------------------------------
(* Properties of extraction and cleanup (SpecFiles) *)

RECURSIVE IsSubseq(_, _)
\* s is t with some elements left out.
IsSubseq(s, t) ==
    IF s = << >> THEN TRUE
    ELSE IF t = << >> THEN FALSE
    ELSE IF Head(s) = Head(t) THEN IsSubseq(Tail(s), Tail(t))
    ELSE IsSubseq(s, Tail(t))

\* C6: after extract_zip and then remove_old_files (no removal failing),
\* no file and no directory the extraction created exists, and no path of
\* the ledger exists.
C6_CleanupRemovesAll ==
    fmPhase = "cleaned" =>
        \A p \in Range(fmCreated) \cup Range(installed_files) :
            ~Exists(files, dirs, p)

\* C7: after a successful extract_zip the ledger holds every path the
\* extraction created, directories made for a file entry included, in the
\* order of creation.
C7_LedgerHoldsCreated ==
    (fmOp.op = "extract_zip" /\ IsOk(fmRet)) =>
        IsSubseq(fmCreated, installed_files)

-----------------------------------------------------------------------------
(* Properties of the runner (Spec) *)

Last(s) == s[Len(s)]
NoDuplicates(s) == \A i, j \in 1..Len(s) : s[i] = s[j] => i = j
\* The steps of the update path.
UpdateSteps ==
    {"get_content_urls", "download_file", "remove_old_files", "extract_zip",
     "save_version"}
Unchanged(p) ==
    /\ IsFile(files, p) <=> IsFile(fs0.files, p)
    /\ IsFile(files, p) => files[p] = fs0.files[p]
    /\ IsDir(dirs, p) <=> IsDir(fs0.dirs, p)

\* C2: once the comparison found the stored identity to be the server's,
\* the run takes no step of the update path (no content URLs, download,
\* removal, extraction, version write): the step after the comparison is
\* launch_from_manifest, the version file stays as it was, and the run ends
\* in a launch or in a failure of the launch.
C2_UpToDateGoesToLaunch ==
    matched = "yes" =>
        /\ Range(steps) \cap UpdateSteps = {}
        /\ download = None
        /\ Unchanged(VersionFile)
        /\ pc \in {"launch", "send_progress", "send_close", "done", "failed",
                   "killed"}
        /\ \A i \in 1..(Len(steps) - 1) :
               steps[i] = "needs_update" => steps[i + 1] = "launch_from_manifest"
        /\ pc \in {"send_progress", "send_close", "done"} => launched # None
        /\ pc = "failed" => Last(steps) \in {"launch_from_manifest",
                                              "launch_executable"}

\* A second run found the installation up to date, launched it and told
\* the front end to close.
C2_Witness ==
    /\ matched = "yes"
    /\ pc = "done"
    /\ launched # None
    /\ Last(sent) = [msg |-> Close, ok |-> TRUE]

\* C3: an extraction is preceded by a removal of the old files in the same
\* run, no removal follows an extraction, and the removal happens only
\* after the comparison asked for an update; on the up-to-date path the
\* files, the directories and the ledger are those of the start of the run.
C3_RemoveBeforeExtract ==
    /\ \A j \in 1..Len(steps) :
           steps[j] = "extract_zip" =>
               \E i \in 1..(j - 1) : steps[i] = "remove_old_files"
    /\ \A i, j \in 1..Len(steps) :
           steps[i] = "remove_old_files" /\ steps[j] = "extract_zip" => i < j
    /\ "remove_old_files" \in Range(steps) => matched = "no"
    /\ matched = "yes" =>
           /\ files = fs0.files
           /\ dirs = fs0.dirs
           /\ installed_files = FileManager_new(fs0.files, fs0.dirs)

\* An update over an earlier installation: its files were removed, the new
\* package was extracted and launched.
C3_Witness ==
    /\ pc = "done"
    /\ launched # None
    /\ "extract_zip" \in Range(steps)
    /\ IsFile(fs0.files, PatcherDir \o <<"a">>)
    /\ ~IsFile(files, PatcherDir \o <<"a">>)
    /\ IsFile(files, PatcherDir \o <<"d", "b">>)

\* What holds in a run that ended with an error.
C4_Failed ==
    /\ NoDuplicates(steps)
    /\ pc = "failed" =>
           /\ error # ""
           /\ sent # << >>
           /\ Last(sent).msg = ShowError(error)
           /\ launched # None => Last(steps) = "launch_executable"
           /\ "launch_executable" \in Range(steps) => launched # None

\* C4: when run_launcher returns an error, the last message sent is
\* ShowError with the text of that error; no step was started twice; the
\* launch was not attempted unless it is the launch that failed (or the
\* messages after it); and nothing more happens in that run: no step, no
\* launch, no change of a file, no message.
C4_FailureHalts ==
    /\ []C4_Failed
    /\ [][pc = "failed" =>
              \/ pc' = "start" /\ run' = run + 1
              \/ UNCHANGED <<pc, steps, launched, files, dirs, installed_files,
                             sent, error>>]_vars

\* The extraction failed half way in a run with the window open: files
\* were written, the front end got the error.
C4_Witness ==
    /\ pc = "failed"
    /\ Last(steps) = "extract_zip"
    /\ Last(sent) = [msg |-> ShowError(error), ok |-> TRUE]
    /\ files # fs0.files

\* C5: when none of the test URLs answered, the run has failed with "No
\* internet connection" at the connectivity check: no app info, no version
\* lookup, no download and no launch, and the files, the directories and the
\* ledger are those of the start of the run.
C5_NoConnectionHalts ==
    endpoints = "none" =>
        /\ pc = "failed"
        /\ error = "No internet connection"
        /\ Last(sent).msg = ShowError("No internet connection")
        /\ Last(steps) = "check_connection"
        /\ Range(steps) = {"read_dat", "new", "check_connection"}
        /\ matched = "unknown"
        /\ download = None
        /\ launched = None
        /\ files = fs0.files
        /\ dirs = fs0.dirs
        /\ installed_files = FileManager_new(fs0.files, fs0.dirs)

\* A run over an installation found no endpoint and left it alone.
C5_Witness ==
    /\ endpoints = "none"
    /\ pc = "failed"
    /\ IsFile(files, VersionFile)
    /\ IsFile(files, ManifestPath)
    /\ installed_files # << >>

-----------------------------------------------------------------------------
(* Properties of the codec check (SpecCodec) *)

\* Bit i of a byte, bit 0 the least significant.
Bit(b, i) == (b \div (2 ^ i)) % 2
FromBits(f) ==
    f[0] + 2 * f[1] + 4 * f[2] + 8 * f[3] + 16 * f[4] + 32 * f[5] + 64 * f[6]
    + 128 * f[7]
RotateRight(b) == FromBits([i \in 0..7 |-> Bit(b, (i + 1) % 8)])
RotateLeft(b) == FromBits([i \in 0..7 |-> Bit(b, (i + 7) % 8)])
Invert(b) == FromBits([i \in 0..7 |-> 1 - Bit(b, i)])

\* C11: for every byte b, decode_byte_array's transform is "rotate right by
\* one bit, then invert" and encode_secret's is "invert, then rotate left",
\* and applying one after the other, in either order, gives b back.
C11_TransformsAreInverse ==
    callArgs # << >> /\ callArgs.kind = "byte" =>
        LET b == callArgs.v[1]
        IN  /\ callOp = <<"decode_byte_array">> =>
                   callRet = <<Invert(RotateRight(b))>>
            /\ callOp = <<"encode_transform">> =>
                   callRet = <<RotateLeft(Invert(b))>>
            /\ callOp = <<"decode_byte_array", "encode_transform">> =>
                   callRet = <<b>>
            /\ callOp = <<"encode_transform", "decode_byte_array">> =>
                   callRet = <<b>>

\* The byte 't' went through the decode transform and back.
C11_Witness ==
    /\ callArgs # << >>
    /\ callArgs.kind = "byte"
    /\ callArgs.v = <<116>>
    /\ callOp = <<"decode_byte_array", "encode_transform">>
    /\ callRet = <<116>>

\* C12 as stated: for every string of printable ASCII, empty or not,
\* reading the block built from it gives the string.
C12_BlockRoundTripAsStated ==
    /\ callArgs # << >>
    /\ callArgs.kind = "string"
    /\ callOp = <<"credential_block", "read_encoded_string">>
    => callRet = Ok(callArgs.v)

\* C12: for every non-empty string of printable ASCII, reading the block
\* built from it (each byte through encode_secret's transform, then a
\* zero) gives the string.
C12_BlockRoundTrip ==
    /\ callArgs # << >>
    /\ callArgs.kind = "string"
    /\ callArgs.v # << >>
    /\ callOp = <<"credential_block", "read_encoded_string">>
    => callRet = Ok(callArgs.v)

\* "t~" was read back from its block.
C12_Witness ==
    /\ callArgs # << >>
    /\ callArgs.kind = "string"
    /\ callArgs.v = <<116, 126>>
    /\ callOp = <<"credential_block", "read_encoded_string">>
    /\ callRet = Ok(<<116, 126>>)

\* C13: for every byte b, decode_byte_array on the pair of encode_byte(b)
\* and a zero gives b, and reading a block built with encode_byte gives the
\* string it was built from.
C13_TestHelperRoundTrip ==
    callArgs # << >> =>
        /\ callArgs.kind = "byte"
           /\ callOp = <<"encode_byte", "decode_byte_array">>
           => callRet = callArgs.v
        /\ callArgs.kind = "string" /\ callArgs.v # << >>
           /\ callOp = <<"test_block", "read_encoded_string">>
           => callRet = Ok(callArgs.v)

\* The bytes a block keeps: every first byte of a pair.
Retained(block) ==
    [k \in 1..(Len(block) \div 2) |-> Invert(RotateRight(block[2 * k - 1]))]
IsDatError(r) ==
    r \in {Err("DAT file error: Decoded string is empty"),
           Err("DAT file error: Invalid UTF-8")}

\* C14: a read of a block never gives the empty string: a block of length
\* 0 or 1 and a block whose kept bytes are no UTF-8 text give a DAT file
\* error, any other block gives its kept bytes; from_binary gives both
\* strings, neither empty, when both reads succeed and fails otherwise.
C14_NeverEmpty ==
    callArgs # << >> /\ callArgs.kind \in {"file", "cut"} =>
        /\ callOp = <<"read_encoded_string">> =>
               /\ callRet # Ok(<< >>)
               /\ callArgs.kind = "cut" => IsErr(callRet)
               /\ callArgs.kind = "file" =>
                      LET kept == Retained(callArgs.first)
                      IN  /\ Len(callArgs.first) <= 1 =>
                                 callRet = Err("DAT file error: Decoded string is empty")
                          /\ kept # << >> /\ ~ValidUtf8(kept) =>
                                 callRet = Err("DAT file error: Invalid UTF-8")
                          /\ kept # << >> /\ ValidUtf8(kept) => callRet = Ok(kept)
        /\ callOp = <<"from_binary">> =>
               LET one == Retained(callArgs.first)
                   two == Retained(callArgs.second)
                   good(kept) == kept # << >> /\ ValidUtf8(kept)
               IN  /\ IsOk(callRet) =>
                          /\ callRet[2].patcher_secret # << >>
                          /\ callRet[2].app_secret # << >>
                   /\ callArgs.kind = "cut" => IsErr(callRet)
                   /\ callArgs.kind = "file" =>
                          IF good(one) /\ good(two)
                          THEN callRet = Ok([patcher_secret |-> one,
                                             app_secret |-> two])
                          ELSE IsDatError(callRet)

\* The first field was read, the second is empty: the credential read
\* failed.
C14_Witness ==
    /\ callArgs # << >>
    /\ callArgs.kind = "file"
    /\ callArgs.first = <<encode_transform(97), 0>>
    /\ callArgs.second = << >>
    /\ callOp = <<"from_binary">>
    /\ callRet = Err("DAT file error: Decoded string is empty")

-----------------------------------------------------------------------------
(* Properties of the manifest check (SpecManifest) *)

RECURSIVE ClosingAt(_, _)
\* Where the "}" stands that closes a "{" before position i, 0 when another
\* "{" or the end of the text comes first.
ClosingAt(text, i) ==
    IF i > Len(text) THEN 0
    ELSE IF text[i] = "}" THEN i
    ELSE IF text[i] = "{" THEN 0
    ELSE ClosingAt(text, i + 1)

RECURSIVE SinglePass(_, _)
\* One pass over the template from left to right: each {name} with a bound
\* name becomes the value, untouched; unbound says that some {name} had none.
SinglePass(text, variables) ==
    IF text = << >> THEN [text |-> << >>, unbound |-> FALSE]
    ELSE LET j == IF Head(text) = "{" THEN ClosingAt(text, 2) ELSE 0
         IN  IF j = 0
             THEN LET r == SinglePass(Tail(text), variables)
                  IN  [r EXCEPT !.text = <<Head(text)>> \o @]
             ELSE LET name == SubSeq(text, 2, j - 1)
                      r == SinglePass(SubSeq(text, j + 1, Len(text)), variables)
                  IN  IF Len(name) = 1 /\ name[1] \in DOMAIN variables
                      THEN [r EXCEPT !.text = variables[name[1]] \o @]
                      ELSE [text |-> <<"{">> \o name \o <<"}">> \o r.text,
                            unbound |-> TRUE]

RECURSIVE StrayBrace(_)
\* The template holds a brace that is not part of a {name}.
StrayBrace(text) ==
    IF text = << >> THEN FALSE
    ELSE LET j == IF Head(text) = "{" THEN ClosingAt(text, 2) ELSE 0
         IN  IF j # 0 THEN StrayBrace(SubSeq(text, j + 1, Len(text)))
             ELSE Head(text) \in {"{", "}"} \/ StrayBrace(Tail(text))

\* How many values the groups before group g hold.
RECURSIVE ValuesBefore(_, _)
ValuesBefore(groups, g) ==
    IF g <= 1 THEN 0 ELSE Len(groups[g - 1]) + ValuesBefore(groups, g - 1)
\* The values of all groups: value j of group g stands at
\* ValuesBefore(groups, g) + j.
AllValues(groups) ==
    [k \in 1..ValuesBefore(groups, Len(groups) + 1) |->
        LET g == CHOOSE g \in 1..Len(groups) :
                     /\ ValuesBefore(groups, g) < k
                     /\ k <= ValuesBefore(groups, g) + Len(groups[g])
        IN  groups[g][k - ValuesBefore(groups, g)]]

\* What the claim of literal substitution expects of a call on templates.
LiteralSubstitution(templates, variables, ret) ==
    LET sp == [k \in 1..Len(templates) |-> SinglePass(templates[k], variables)]
    IN  IF \E k \in 1..Len(templates) : sp[k].unbound
        THEN IsErr(ret)
        ELSE ret = Ok([k \in 1..Len(templates) |-> sp[k].text])

MfCalled == callArgs # << >> /\ callOp # << >> /\ callOp[1] \in {"get_target", "get_arguments"}
\* The templates the call resolves, and its result as a list.
MfTemplates ==
    IF callOp = <<"get_target">> THEN <<callArgs.manifest.target>>
    ELSE AllValues(callArgs.manifest.target_arguments)
MfResults ==
    IF callOp = <<"get_target">> /\ IsOk(callRet) THEN Ok(<<callRet[2]>>)
    ELSE callRet

\* C15 as stated: whatever the template and the values are, the call fails
\* when some {name} is unbound and otherwise returns the template with each
\* {name} replaced by its value.
C15_LiteralSubstitutionAsStated ==
    MfCalled => LiteralSubstitution(MfTemplates, callArgs.variables, MfResults)

\* No brace outside a {name} in the templates, no brace in a value.
MfClean ==
    /\ \A k \in 1..Len(MfTemplates) : ~StrayBrace(MfTemplates[k])
    /\ \A n \in DOMAIN callArgs.variables :
           Range(callArgs.variables[n]) \cap {"{", "}"} = {}

\* C15: when the templates hold no brace outside their {name} placeholders
\* and no value holds a brace, get_target and get_arguments fail with a
\* manifest error when some {name} is unbound and otherwise return the
\* templates with each {name} replaced by its value.
C15_LiteralSubstitution ==
    MfCalled /\ MfClean =>
        LiteralSubstitution(MfTemplates, callArgs.variables, MfResults)

\* "{x}/{y}" with x = "v" and y = "/w" was resolved.
C15_Witness ==
    /\ callOp = <<"get_target">>
    /\ callArgs.manifest.target = <<"{", "x", "}", "/", "{", "y", "}">>
    /\ callArgs.variables = [n \in {"x", "y"} |->
                                IF n = "x" THEN <<"v">> ELSE <<"/", "w">>]
    /\ callRet = Ok(<<"v", "/", "/", "w">>)

\* C16: what a call returns is the result of one pass: no value put in was
\* scanned for placeholders again.
C16_SinglePass ==
    MfCalled /\ IsOk(callRet) =>
        MfResults[2] = [k \in 1..Len(MfTemplates) |->
                           SinglePass(MfTemplates[k], callArgs.variables).text]

\* C17: get_arguments fails when resolve_variables fails for any value of
\* any group, and otherwise returns one string per value: the resolved
\* value j of group g stands at position (values in groups before g) + j.
C17_ArgumentsFlattened ==
    callArgs # << >> /\ callOp = <<"get_arguments">> =>
        LET groups == callArgs.manifest.target_arguments
            resolved(value) == resolve_variables(value, callArgs.variables,
                                                 callArgs.order)
        IN  IF \E g \in 1..Len(groups) : \E j \in 1..Len(groups[g]) :
                   IsErr(resolved(groups[g][j]))
            THEN callRet = Err("Manifest error: Unresolved variables in manifest")
            ELSE /\ IsOk(callRet)
                 /\ Len(callRet[2]) = ValuesBefore(groups, Len(groups) + 1)
                 /\ \A g \in 1..Len(groups) : \A j \in 1..Len(groups[g]) :
                        callRet[2][ValuesBefore(groups, g) + j] =
                            resolved(groups[g][j])[2]

\* Two groups of two values each were resolved into four strings.
C17_Witness ==
    /\ callOp = <<"get_arguments">>
    /\ callArgs.manifest.target_arguments =
           <<<<<<"-a">>, <<"{", "x", "}">>>>,
             <<<<"{", "y", "}", "/">>, <<"-a">>>>>>
    /\ callRet = Ok(<<<<"-a">>, <<"v">>, <<"v", "/">>, <<"-a">>>>)

-----------------------------------------------------------------------------
(* The lock file (src/file/mod.rs): lock is the file at the lock path, absent
   or holding the process id with its modification time; now is the system
   clock in seconds. *)

\* Duration::from_secs(60)
StaleSecs == 60
\* The clock runs from 0 to MaxTime.
MaxTime == 62
\* std::process::id()
ProcessId == 4242

create_lockfile_exclusive(lk, t, parent_exists) ==
    IF ~parent_exists \/ lk # None THEN [lock |-> lk, result |-> Err("IO error")]
    ELSE [lock |-> Some([content |-> ProcessId, modified |-> t]),
          result |-> Ok(<< >>)]

\* FileManager::create_lockfile: File::create makes or truncates the file
\* (it fails when the directory of the path is missing), then the id is
\* written.
create_lockfile(lk, t, parent_exists) ==
    IF ~parent_exists THEN [lock |-> lk, result |-> Err("IO error")]
    ELSE [lock |-> Some([content |-> ProcessId, modified |-> t]),
          result |-> Ok(<< >>)]

check_lockfile_at_threshold(lk, t) ==
    IF lk = None THEN [lock |-> lk, result |-> Ok(FALSE)]
    ELSE IF t >= lk[1].modified /\ t - lk[1].modified >= StaleSecs
         THEN [lock |-> None, result |-> Ok(FALSE)]
         ELSE [lock |-> lk, result |-> Ok(TRUE)]

\* FileManager::check_lockfile: duration_since is Ok when the modification
\* time is not after the clock.
check_lockfile(lk, t) ==
    IF lk = None THEN [lock |-> lk, result |-> Ok(FALSE)]
    ELSE IF t >= lk[1].modified /\ t - lk[1].modified > StaleSecs
         THEN [lock |-> None, result |-> Ok(FALSE)]
         ELSE [lock |-> lk, result |-> Ok(TRUE)]

delete_lockfile_keep(lk) ==
    IF lk = None THEN [lock |-> lk, result |-> Err("IO error")]
    ELSE [lock |-> lk, result |-> Ok(<< >>)]

\* FileManager::delete_lockfile: fs::remove_file fails on a missing file.
delete_lockfile(lk) ==
    IF lk = None THEN [lock |-> lk, result |-> Err("IO error")]
    ELSE [lock |-> None, result |-> Ok(<< >>)]

otherVarsLock == <<fmVars, viVars, runVars, peers>>

\* callArgs keeps what the path held before the call (before) and the call
\* before it with its result (previous).
LkInit ==
    /\ FmIdle
    /\ ViIdle
    /\ RunIdle
    /\ callOp = << >>
    /\ callRet = << >>
    /\ callArgs = [before |-> None, previous |-> << >>]
    /\ lock = None
    /\ now = 0
    /\ peers = << >>

LkCall(op, r) ==
    /\ callOp' = <<op>>
    /\ callArgs' = [before |-> lock, previous |-> <<callOp, callRet>>]
    /\ lock' = r.lock
    /\ callRet' = r.result
    /\ UNCHANGED <<now, otherVarsLock>>

\* The directory of a lock file that exists, exists.
LkCreateLockfile ==
    \E parent_exists \in (IF lock = None THEN BOOLEAN ELSE {TRUE}) :
        LkCall("create_lockfile", create_lockfile(lock, now, parent_exists))

LkCheckLockfile == LkCall("check_lockfile", check_lockfile(lock, now))

LkDeleteLockfile == LkCall("delete_lockfile", delete_lockfile(lock))

\* A second of the system clock passes.
LkTick ==
    /\ now < MaxTime
    /\ now' = now + 1
    /\ callOp' = <<"tick">>
    /\ callRet' = << >>
    /\ callArgs' = [before |-> lock, previous |-> <<callOp, callRet>>]
    /\ UNCHANGED <<lock, otherVarsLock>>

\* The system clock is set back by a second, which leaves the file's
\* modification time in the future.
LkClockSetBack ==
    /\ now > 0
    /\ lock # None /\ lock[1].modified = now
    /\ now' = now - 1
    /\ callOp' = <<"clock_set_back">>
    /\ callRet' = << >>
    /\ callArgs' = [before |-> lock, previous |-> <<callOp, callRet>>]
    /\ UNCHANGED <<lock, otherVarsLock>>

LkNext ==
    \/ LkCreateLockfile
    \/ LkCheckLockfile
    \/ LkDeleteLockfile
    \/ LkTick
    \/ LkClockSetBack

SpecLock == LkInit /\ [][LkNext]_vars

\* C18: check_lockfile returns false when no file is at the path; called
\* right after a successful create_lockfile it returns true; a successful
\* delete_lockfile removes the file and check_lockfile right after it
\* returns false.
C18_LockLifecycle ==
    /\ callOp = <<"check_lockfile">> =>
           /\ callArgs.before = None => callRet = Ok(FALSE)
           /\ callArgs.previous = <<<<"create_lockfile">>, Ok(<< >>)>> =>
                  callRet = Ok(TRUE) /\ lock # None
           /\ callArgs.previous = <<<<"delete_lockfile">>, Ok(<< >>)>> =>
                  callRet = Ok(FALSE)
    /\ callOp = <<"delete_lockfile">> /\ IsOk(callRet) => lock = None
    /\ callOp = <<"create_lockfile">> /\ IsOk(callRet) => lock # None

\* The lock was released and the check after it said false.
C18_Witness ==
    /\ callOp = <<"check_lockfile">>
    /\ callArgs.previous = <<<<"delete_lockfile">>, Ok(<< >>)>>
    /\ callRet = Ok(FALSE)
    /\ lock = None

-----------------------------------------------------------------------------
(* Persistence of the ledger (SpecFiles) *)

\* C20: a FileManager made after a successful extract_zip starts with the
\* ledger the extracting one held, in the same order; one made while no
\* ledger file exists is made all the same and starts with an empty ledger.
C20_LedgerPersists ==
    /\ [](fmOp.op = "new" /\ ~Exists(files, dirs, InstalledFilesPath) =>
              installed_files = << >> /\ IsOk(fmRet))
    /\ [][fmPhase = "extracted" /\ fmOp'.op = "new" =>
              installed_files' = installed_files /\ IsOk(fmRet')]_vars

-----------------------------------------------------------------------------
(* The files of the patcher directory during an update (Spec) *)

\* What is at path p: nothing, a directory, or a file with its content.
At(fl, ds, p) ==
    IF IsFile(fl, p) THEN <<"file", fl[p]>>
    ELSE IF IsDir(ds, p) THEN <<"dir">> ELSE <<"none">>

\* C21: the steps remove_old_files and extract_zip of a run leave the
\* version file as it was, remove_old_files leaves the ledger file as it
\* was, and after extract_zip the ledger file is as it was or holds the
\* ledger the extraction built.
C21_StateFilesUntouched ==
    [][/\ pc \in {"remove_old_files", "extract_zip"} =>
              At(files', dirs', VersionFile) = At(files, dirs, VersionFile)
       /\ pc = "remove_old_files" =>
              At(files', dirs', InstalledFilesPath) =
                  At(files, dirs, InstalledFilesPath)
       /\ pc = "extract_zip" =>
              At(files', dirs', InstalledFilesPath) \in
                  {At(files, dirs, InstalledFilesPath),
                   <<"file", LedgerText(installed_files')>>}]_vars

-----------------------------------------------------------------------------
(* Two runner processes started for the same application (src/main.rs,
   run_launcher): they share the patcher directory and the lock path, each
   has its own FileManager.  peers[p] is the position of process p: the
   statement of run_launcher it is at, its in-memory ledger, and the version
   and package the server gave it. *)

Peers == {1, 2}
\* What the server answers a process: the latest version and its package.
Releases ==
    {[version |-> <<"1">>, package |-> <<EntryA>>],
     [version |-> <<"2">>, package |-> <<EntryD, EntryDB>>]}
\* The patcher secret both processes use.
PeerSecret == <<"s">>

RcInit ==
    /\ FmIdle
    /\ ViIdle
    /\ RunIdle
    /\ callOp = << >>
    /\ callRet = << >>
    /\ callArgs = [before |-> None, previous |-> << >>]
    /\ lock = None
    /\ now = 0
    /\ peers = [p \in Peers |-> [pc |-> "new", ledger |-> << >>,
                                 version |-> << >>, package |-> << >>]]

\* Process p goes on: its position, and the files it leaves.
PeerGoes(p, position, fl, ds) ==
    /\ peers' = [peers EXCEPT ![p] = position]
    /\ files' = fl
    /\ dirs' = ds
    /\ UNCHANGED <<installed_files, fmGhost, viVars, runVars>>
    /\ UNCHANGED <<callOp, callArgs, callRet, lock, now>>

\* run_launcher: FileManager::new loads the ledger.
PeerNew(p) ==
    /\ peers[p].pc = "new"
    /\ PeerGoes(p, [peers[p] EXCEPT !.pc = "needs_update",
                                    !.ledger = FileManager_new(files, dirs)],
                files, dirs)

\* run_launcher from the connection check to the end of the download: the
\* server's answers, the comparison with the version file, the package in a
\* temporary file of the process.
PeerNeedsUpdate(p) ==
    /\ peers[p].pc = "needs_update"
    /\ \E answered \in BOOLEAN, release \in Releases :
        \E needed \in {needs_update(files, dirs, release.version, PeerSecret)} :
            PeerGoes(p,
                     IF ~answered \/ IsErr(needed)
                     THEN [peers[p] EXCEPT !.pc = "failed"]
                     ELSE [peers[p] EXCEPT
                              !.pc = IF needed[2] THEN "remove_old_files"
                                     ELSE "launch",
                              !.version = release.version,
                              !.package = release.package],
                     files, dirs)

\* run_launcher: file_manager.remove_old_files()?
PeerRemoveOldFiles(p) ==
    /\ peers[p].pc = "remove_old_files"
    /\ \E r \in {remove_old_files(files, dirs, peers[p].ledger, {}, {})} :
        PeerGoes(p, [peers[p] EXCEPT !.pc = IF IsErr(r.result) THEN "failed"
                                            ELSE "extract_zip"],
                 r.files, r.dirs)

\* run_launcher: file_manager.extract_zip(&download_path, &extract_path)?
PeerExtractZip(p) ==
    /\ peers[p].pc = "extract_zip"
    /\ \E r \in {extract_zip(files, dirs, peers[p].ledger, peers[p].package,
                             PatcherDir, NoFailure)} :
        PeerGoes(p, [peers[p] EXCEPT !.pc = IF IsErr(r.result) THEN "failed"
                                            ELSE "save_version",
                                     !.ledger = r.installed],
                 r.files, r.dirs)

\* run_launcher: file_manager.save_version(&version, &patcher_secret)?
PeerSaveVersion(p) ==
    /\ peers[p].pc = "save_version"
    /\ \E r \in {save_version(files, dirs, peers[p].version, PeerSecret)} :
        PeerGoes(p, [peers[p] EXCEPT !.pc = IF IsErr(r.result) THEN "failed"
                                            ELSE "launch"],
                 r.files, r.dirs)

\* run_launcher: launch_from_manifest, the last statement.
PeerLaunch(p) ==
    /\ peers[p].pc = "launch"
    /\ PeerGoes(p, [peers[p] EXCEPT !.pc = "done"], files, dirs)

PeerStep(p) ==
    \/ PeerNew(p)
    \/ PeerNeedsUpdate(p)
    \/ PeerRemoveOldFiles(p)
    \/ PeerExtractZip(p)
    \/ PeerSaveVersion(p)
    \/ PeerLaunch(p)

\* Some process writes the lock with create_lockfile.
RcCreateLockfile == LkCreateLockfile

RcNext == (\E p \in Peers : PeerStep(p)) \/ RcCreateLockfile

SpecRace == RcInit /\ [][RcNext]_vars

\* Process p has started remove_old_files and has not ended save_version.
Updating(p) == peers[p].pc \in {"extract_zip", "save_version"}

\* C22: no step of run_launcher writes the lock, so a lock file is there
\* only when some other caller of create_lockfile wrote it, and
\* create_lockfile on a lock that exists returns Ok and writes the file
\* anew.  (That two processes are then inside the update at once is the
\* state C22_Witness.)
C22_NoMutualExclusion ==
    /\ [](callOp = <<"create_lockfile">> /\ callArgs.before # None =>
              /\ callRet = Ok(<< >>)
              /\ lock = Some([content |-> ProcessId, modified |-> now]))
    /\ [][peers' # peers => lock' = lock]_vars

\* Both processes are between remove_old_files and save_version while the
\* lock file exists.
C22_Witness ==
    /\ peers # << >>
    /\ \A p \in Peers : Updating(p)
    /\ lock # None

-----------------------------------------------------------------------------
(* The channel and the faults of a run (Spec) *)

\* C23: what the front end does with the channel never changes the run: no
\* run fails because a message could not be sent.
C23_ChannelCarriesNoControl ==
    pc = "failed" => error # SendError

\* C24: a run that ends without reaching its end has failed with an error
\* that was sent to the front end as ShowError; no run ends in a panic.
C24_EveryFailureIsAnError ==
    /\ pc # "panicked"
    /\ pc = "failed" => sent # << >> /\ Last(sent).msg = ShowError(error)

-----------------------------------------------------------------------------
(* The secret sent to the server (SpecCodec) *)

\* The bits of the bytes in a row, the most significant bit of each first.
BitsOf(bytes) ==
    [k \in 1..(8 * Len(bytes)) |-> Bit(bytes[((k - 1) \div 8) + 1], 7 - ((k - 1) % 8))]
\* The number whose binary digits are bits i..j of the row, zero bits where
\* the row has ended.
RECURSIVE NumberOf(_, _, _)
NumberOf(bits, i, j) ==
    IF j < i THEN 0
    ELSE 2 * NumberOf(bits, i, j - 1) + (IF j <= Len(bits) THEN bits[j] ELSE 0)
\* Base64 by its definition: the bits in groups of six, each a digit, and
\* "=" up to a multiple of four characters.
Base64Of(bytes) ==
    LET bits == BitsOf(bytes)
        n == (Len(bits) + 5) \div 6
    IN  [j \in 1..(4 * ((n + 3) \div 4)) |->
            IF j <= n THEN NumberOf(bits, 6 * (j - 1) + 1, 6 * j) ELSE Base64Pad]
\* Base64 read back: the digits' bits in groups of eight, the incomplete
\* group dropped.
Base64Back(text) ==
    LET digits == SelectSeq(text, LAMBDA x : x # Base64Pad)
        bits == [k \in 1..(6 * Len(digits)) |->
                    Bit(digits[((k - 1) \div 6) + 1], 5 - ((k - 1) % 6))]
    IN  [i \in 1..(Len(bits) \div 8) |-> NumberOf(bits, 8 * (i - 1) + 1, 8 * i)]

\* C25: encode_secret(s) is the base64 text of the UTF-16LE bytes of s, each
\* inverted and rotated left by one bit; reading the base64 text back and
\* applying the decoder's transform to each byte gives the UTF-16LE bytes
\* of s.
C25_EncodeSecret ==
    callOp = <<"encode_secret">> =>
        LET bytes == Utf16LeBytes(callArgs.v)
            back == Base64Back(callRet)
        IN  /\ callRet = Base64Of([i \in 1..Len(bytes) |->
                                      RotateLeft(Invert(bytes[i]))])
            /\ [i \in 1..Len(back) |-> decode_transform(back[i])] = bytes

\* The secret of a letter and a character outside the basic plane (six
\* bytes, eight base64 digits) was encoded.
C25_Witness ==
    /\ callOp = <<"encode_secret">>
    /\ callArgs.v = <<65, 128512>>
    /\ Len(callRet) = 8
    /\ Base64Pad \notin Range(callRet)

-----------------------------------------------------------------------------
(* The order of the update path (Spec) *)

\* The steps from the download to the launch, in the order of run_launcher.
UpdateOrder ==
    <<"download_file", "remove_old_files", "extract_zip", "save_version",
      "launch_from_manifest">>
\* The place of a step in that order, 0 for the other steps.
PlaceOf(step) ==
    IF step \in Range(UpdateOrder)
    THEN CHOOSE k \in 1..Len(UpdateOrder) : UpdateOrder[k] = step
    ELSE 0

\* C26: in a run that updates, the step started after one of Download,
\* RemoveOldFiles, Extract, PersistVersion is the next of that order, and
\* each of them but the first is started right after the one before it; a
\* run that failed has started nothing after the step that failed.  When
\* save_version is started the extraction has written its ledger, and when
\* launch_from_manifest is started after an update the version file holds
\* the identity of this run.
C26_UpdateOrder ==
    /\ NoDuplicates(steps)
    /\ \A i \in 1..Len(steps) :
           LET k == PlaceOf(steps[i])
           IN  /\ k \in 1..4 /\ i < Len(steps) => steps[i + 1] = UpdateOrder[k + 1]
               /\ k \in 2..4 \/ (k = 5 /\ matched = "no") =>
                      i > 1 /\ steps[i - 1] = UpdateOrder[k - 1]
    /\ "save_version" \in Range(steps) =>
           /\ IsFile(files, InstalledFilesPath)
           /\ files[InstalledFilesPath] = LedgerText(installed_files)
    /\ "launch_from_manifest" \in Range(steps) /\ matched = "no" =>
           /\ IsFile(files, VersionFile)
           /\ files[VersionFile] =
                  to_string(VersionInfo_new(run_version, run_patcher_secret))

\* An update went through all five steps and launched.
C26_Witness ==
    /\ pc = "done"
    /\ launched # None
    /\ matched = "no"
    /\ \A k \in 1..Len(UpdateOrder) : UpdateOrder[k] \in Range(steps)

-----------------------------------------------------------------------------
(* The patcher secret of a run (Spec) *)

\* The calls of this run that take a patcher secret.
SecretCalls ==
    {"get_latest_version", "needs_update", "get_content_urls", "save_version"}

\* C27: every call of get_latest_version, needs_update, get_content_urls
\* and save_version in a run is made with the patcher secret the app-info
\* lookup returned, or with the credential file's when it returned none,
\* and the version file written by save_version holds that secret.
C27_OnePatcherSecret ==
    \A i \in 1..Len(callArgs) :
        callArgs[i].fn \in SecretCalls =>
            /\ callArgs[1].fn = "get_app_info"
            /\ callArgs[i].patcher_secret =
                   (IF callArgs[1].patcher_secret # None
                    THEN callArgs[1].patcher_secret[1]
                    ELSE launcher_data[1].patcher_secret)
            /\ callArgs[i].fn = "save_version" /\ pc = "launch" =>
                   from_string(files[VersionFile]) =
                       Some([patcher_secret |-> callArgs[i].patcher_secret,
                             version |-> run_version])

\* An update made all four calls with the secret of the app-info lookup,
\* which is not the credential file's.
C27_Witness ==
    /\ pc = "launch"
    /\ Len(callArgs) = 5
    /\ callArgs[1] = [fn |-> "get_app_info", patcher_secret |-> Some(<<"q">>)]
    /\ {callArgs[i].fn : i \in 2..5} = SecretCalls
    /\ \A i \in 2..5 : callArgs[i].patcher_secret = <<"q">>
    /\ launcher_data[1].patcher_secret = <<"p">>

-----------------------------------------------------------------------------
(* Extraction and cleanup (SpecFiles) *)

\* The output paths of an archive's entries, in the archive's order.
OutPaths(archive, destination) ==
    [i \in 1..Len(archive) |-> destination \o mangled_name(archive[i].name)]

\* C28: after an extract_zip that returned Ok the ledger in memory is the
\* list of that archive's output paths, and the ledger file lists none but
\* these; an extract_zip that returned an error has left the ledger file as
\* it was.
C28_LedgerOfThisExtraction ==
    [][fmOp'.op = "extract_zip" =>
          LET paths == OutPaths(callArgs'.archive, callArgs'.destination)
          IN  /\ IsOk(fmRet') =>
                     /\ installed_files' = paths
                     /\ IsFile(files', InstalledFilesPath)
                     /\ Range(load_installed_files(files', dirs', << >>))
                            \subseteq Range(paths)
              /\ IsErr(fmRet') =>
                     At(files', dirs', InstalledFilesPath) =
                         At(files, dirs, InstalledFilesPath)]_vars

\* C29: remove_old_files leaves every file and directory that is not in
\* the ledger, keeps a directory of the ledger that holds an entry not in
\* the ledger, leaves the ledger in memory and the ledger file as they
\* were, and with an empty ledger returns Ok and changes nothing.
C29_CleanupFrame ==
    [][fmOp'.op = "remove_old_files" =>
          /\ \A p \in (DOMAIN files) \ Range(installed_files) :
                 IsFile(files', p) /\ files'[p] = files[p]
          /\ \A p \in dirs \ Range(installed_files) : IsDir(dirs', p)
          /\ \A p \in dirs \cap Range(installed_files) :
                 (Children(files, dirs, p) \ Range(installed_files) # {}) =>
                     IsDir(dirs', p)
          /\ installed_files' = installed_files
          /\ At(files', dirs', InstalledFilesPath) =
                 At(files, dirs, InstalledFilesPath)
          /\ installed_files = << >> =>
                 IsOk(fmRet') /\ files' = files /\ dirs' = dirs]_vars

\* C30: remove_old_files returns Ok whatever fails for single entries, and
\* every file of the ledger whose removal did not fail is removed.
C30_CleanupGoesOn ==
    [][fmOp'.op = "remove_old_files" =>
          /\ IsOk(fmRet')
          /\ \A p \in Range(installed_files) :
                 IsFile(files, p) /\ p \notin callArgs'.stuck => ~IsFile(files', p)]_vars

-----------------------------------------------------------------------------
(* The end of a run (Spec) *)

\* C31: a run that ended without error, run_launcher having returned Ok,
\* has called launch_executable, and when it took the update path it has
\* downloaded, removed, extracted and written the version before.
C31_SuccessMeansLaunched ==
    pc = "done" =>
        /\ "launch_executable" \in Range(steps)
        /\ launched # None
        /\ matched = "no" =>
               \A k \in 1..Len(UpdateOrder) : UpdateOrder[k] \in Range(steps)

-----------------------------------------------------------------------------
(* The manifest's path (Spec) *)

\* The uses of a path this run made so far.
UsesOf(fn) == {u \in Range(callRet) : u.fn = fn}

-----------------------------------------------------------------------------
(* decode_byte_array on a block (SpecCodec) *)

\* C33: decode_byte_array of n bytes returns n \div 2 bytes, the k-th being
\* the first byte of the k-th pair rotated right and inverted; the second
\* byte of a pair and a last byte without a partner are not in the result.
C33_DecodeByteArray ==
    callArgs # << >> /\ callArgs.kind = "cut" /\ callOp = <<"decode_byte_array">> =>
        LET input == callArgs.first
        IN  /\ Len(callRet) = Len(input) \div 2
            /\ \A k \in 1..Len(callRet) :
                   callRet[k] = Invert(RotateRight(input[2 * k - 1]))

\* Three bytes, the second not zero: one byte comes back, 'a'.
C33_Witness ==
    /\ callArgs # << >>
    /\ callArgs.kind = "cut"
    /\ callOp = <<"decode_byte_array">>
    /\ callArgs.first = <<encode_transform(97), encode_transform(169), encode_transform(195)>>
    /\ callArgs.first[2] # 0
    /\ callRet = <<97>>

-----------------------------------------------------------------------------
(* The order of the variables (SpecManifest) *)

\* C34: what get_target and get_arguments return for a manifest and a map
\* of variables is what they return for that manifest and that map in any
\* other order in which the map may yield its keys.
C34_OrderIndependent ==
    MfCalled =>
        \A order \in KeyOrders(DOMAIN callArgs.variables) :
            callRet =
                IF callOp = <<"get_target">>
                THEN get_target(callArgs.manifest, callArgs.variables, order)
                ELSE get_arguments(callArgs.manifest, callArgs.variables, order)

-----------------------------------------------------------------------------
(* What an extraction leaves untracked (SpecFiles) *)

\* C35: every file the last extract_zip wrote below the patcher directory
\* and that still exists is listed in the ledger file, so that a new
\* FileManager has it in its ledger.
C35_WrittenIsTracked ==
    \A p \in Range(fmCreated) :
        IsFile(files, p) /\ ~IsAbsolute(p) =>
            p \in Range(FileManager_new(files, dirs))

-----------------------------------------------------------------------------
(* check_lockfile beside create_lockfile (src/file/mod.rs:279-304).  One
   process is in check_lockfile, which is four calls of the operating
   system; another calls create_lockfile on the same path between any two
   of them.  callOp is the call check_lockfile makes next, callArgs what it
   read (modified) and what its remove_file removed (removed). *)

CkInit ==
    /\ FmIdle
    /\ ViIdle
    /\ RunIdle
    /\ callOp = << >>
    /\ callRet = << >>
    /\ callArgs = [modified |-> None, removed |-> None]
    /\ lock = None
    /\ now = 0
    /\ peers = << >>

\* check_lockfile returns.
CkReturn(r) ==
    /\ callOp' = << >>
    /\ callRet' = r

\* path.exists()
CkExists ==
    /\ callOp = << >>
    /\ callArgs' = [modified |-> None, removed |-> None]
    /\ IF lock = None THEN CkReturn(Ok(FALSE))
       ELSE callOp' = <<"metadata">> /\ UNCHANGED callRet
    /\ UNCHANGED <<lock, now, otherVarsLock>>

\* fs::metadata(path) and metadata.modified(): without the file the call
\* fails and check_lockfile returns true.
CkMetadata ==
    /\ callOp = <<"metadata">>
    /\ IF lock = None THEN CkReturn(Ok(TRUE)) /\ UNCHANGED callArgs
       ELSE /\ callOp' = <<"now">>
            /\ callArgs' = [callArgs EXCEPT !.modified = Some(lock[1].modified)]
            /\ UNCHANGED callRet
    /\ UNCHANGED <<lock, now, otherVarsLock>>

\* SystemTime::now().duration_since(modified) and the comparison with 60
\* seconds.
CkDurationSince ==
    /\ callOp = <<"now">>
    /\ IF now >= callArgs.modified[1] /\ now - callArgs.modified[1] > StaleSecs
       THEN callOp' = <<"remove_file">> /\ UNCHANGED callRet
       ELSE CkReturn(Ok(TRUE))
    /\ UNCHANGED <<callArgs, lock, now, otherVarsLock>>

\* fs::remove_file(path)?
CkRemoveFile ==
    /\ callOp = <<"remove_file">>
    /\ IF lock = None THEN CkReturn(Err("IO error")) /\ UNCHANGED callArgs
       ELSE /\ CkReturn(Ok(FALSE))
            /\ callArgs' = [callArgs EXCEPT !.removed = lock]
    /\ lock' = None
    /\ UNCHANGED <<now, otherVarsLock>>

\* The other process calls create_lockfile.
CkCreateLockfile ==
    /\ lock' = create_lockfile(lock, now, TRUE).lock
    /\ UNCHANGED <<callOp, callArgs, callRet, now, otherVarsLock>>

\* A second of the system clock passes.
CkTick ==
    /\ now < MaxTime
    /\ now' = now + 1
    /\ UNCHANGED <<callOp, callArgs, callRet, lock, otherVarsLock>>

CkNext ==
    \/ CkExists
    \/ CkMetadata
    \/ CkDurationSince
    \/ CkRemoveFile
    \/ CkCreateLockfile
    \/ CkTick

SpecCheckRace == CkInit /\ [][CkNext]_vars

\* C36: the file check_lockfile removed was last written 60 seconds ago or
\* earlier, and is the file whose modification time it had read.
C36_RemovesOnlyStale ==
    callArgs.removed # None =>
        /\ now - callArgs.removed[1].modified >= StaleSecs
        /\ callArgs.removed[1].modified = callArgs.modified[1]

-----------------------------------------------------------------------------
(* A run that fails before it removes anything (Spec) *)

\* The steps of run_launcher that write below the patcher directory.
WritingSteps == {"remove_old_files", "extract_zip", "save_version"}

\* C37: as long as a run has started none of remove_old_files, extract_zip
\* and save_version, the files and directories below the patcher directory,
\* the ledger file and the version file among them, are those the run
\* started with; so they are when it failed in the credential read, the
\* connectivity check, a lookup or the download.
C37_FailureBeforeRemovalChangesNothing ==
    Range(steps) \cap WritingSteps = {} =>
        /\ files = fs0.files
        /\ dirs = fs0.dirs
        /\ At(files, dirs, InstalledFilesPath) =
               At(fs0.files, fs0.dirs, InstalledFilesPath)
        /\ At(files, dirs, VersionFile) = At(fs0.files, fs0.dirs, VersionFile)

\* A run that found an installation failed in the download.
C37_Witness ==
    /\ pc = "failed"
    /\ Last(steps) = "download_file"
    /\ error = "Network error"
    /\ IsFile(fs0.files, VersionFile)
    /\ IsFile(fs0.files, InstalledFilesPath)
    /\ fs0.files[InstalledFilesPath] # << >>

-----------------------------------------------------------------------------
(* The version file and the installation it names (Spec) *)

\* C38: when a run has ended, however it ended, and the version file holds
\* an identity, the files the ledger file lists, which are the files of the
\* extraction that came before the version was written, are all present.
C38_VersionMeansInstalled ==
    /\ pc \in Terminal
    /\ IsFile(files, VersionFile)
    /\ from_string(files[VersionFile]) # None
    => \A p \in Range(FileManager_new(files, dirs)) : Exists(files, dirs, p)

-----------------------------------------------------------------------------
(* The last message of a run (Spec) *)

\* The messages of this run of the given type.
SentOf(type) == {i \in 1..Len(sent) : sent[i].msg.type = type}

\* C39: when run_launcher has returned, with Ok or with an error, the
\* worker has passed Close or ShowError to the channel.
C39_TerminalMessage ==
    pc \in {"done", "failed"} =>
        SentOf("Close") \cup SentOf("ShowError") # {}

\* C40: Close is passed to the channel only after launch_executable
\* returned Ok and right after a SetProgress(1.0) the channel took; in a
\* run whose Close the channel took no ShowError is sent, and no ShowError
\* is ever sent before a Close nor taken by the channel after one.
C40_CloseOnlyAfterLaunch ==
    \A i \in SentOf("Close") :
        /\ launched # None
        /\ Last(steps) = "launch_executable"
        /\ error \in {"", SendError}
        /\ i > 1 /\ sent[i - 1] = [msg |-> SetProgress, ok |-> TRUE]
        /\ sent[i].ok => SentOf("ShowError") = {}
        /\ \A j \in SentOf("ShowError") : j > i /\ ~sent[j].ok

\* A run ended with Close taken by the channel.
C40_Witness ==
    /\ pc = "done"
    /\ Last(sent) = [msg |-> Close, ok |-> TRUE]
    /\ SentOf("ShowError") = {}
    /\ launched # None

=============================================================================
